---- MODULE Spec2Model ----
(***************************************************************************)
(* SummaryFlow (seeya29/SmartBrief-): the message summarizer pipeline      *)
(* (summaryflow_v3.py, summaryflow_v4.py, context_cleaner_v4.py), its      *)
(* SQLite store and the HTTP facade (summaryflow_service/service.py).      *)
(*                                                                         *)
(* Texts are strings, processed character by character as the regular      *)
(* expressions and str methods of the source process them.  Two characters *)
(* outside ASCII are written with a stand-in: "~" is the em dash U+2014    *)
(* and "^" is one emoji code point (U+1F602).  Whitespace is " ", "\n"     *)
(* and "\t".  Time is counted in whole minutes since 1970-01-01T00:00Z     *)
(* (the seconds of every timestamp of the model are 00).                   *)
(***************************************************************************)
EXTENDS Integers, Sequences, FiniteSets, TLC

VARIABLES
    dbFile,     \* os.path.exists(assistant_core.db)
    dbCols,     \* the columns of table summaries, {} when the table is absent
    dbRows,     \* summary_id -> row (column -> value) of table summaries
    now,        \* datetime.now(timezone.utc), in minutes
    resp,       \* what the last call returned to its caller (or raised)
    calls,      \* for each summarize call that returned so far, oldest first: the
                \* variant that ran, the summary_id it returned, whether the store
                \* was available to it and whether its save had returned
    conns       \* for each handler thread of the service: where it is in the call
                \* that it is running, and what that call has in hand

vars == <<dbFile, dbCols, dbRows, now, resp, calls, conns>>

\* Python's None, and SQL NULL, where a string may stand.
None == "<None>"

-----------------------------------------------------------------------------
(* Characters and str methods.                                             *)

Chr(s, i) == SubSeq(s, i, i)

InStr(c, alphabet) == \E i \in 1..Len(alphabet) : Chr(alphabet, i) = c

UpperAlphabet == "ABCDEFGHIJKLMNOPQRSTUVWXYZ"

LowerAlphabet == "abcdefghijklmnopqrstuvwxyz"

DigitAlphabet == "0123456789"

\* the characters of an alphabet, as a set
CharsOf(alphabet) == {Chr(alphabet, i) : i \in 1..Len(alphabet)}

UpperChars == CharsOf(UpperAlphabet)

LowerChars == CharsOf(LowerAlphabet)

DigitChars == CharsOf(DigitAlphabet)

WordAlphabet == "ABCDEFGHIJKLMNOPQRSTUVWXYZabcdefghijklmnopqrstuvwxyz0123456789_"

WordChars == CharsOf(WordAlphabet)

IsDigit(c) == c \in DigitChars

IsUpper(c) == c \in UpperChars

IsLower(c) == c \in LowerChars

\* \w of the re module
IsWordChar(c) == c \in WordChars

\* \s of the re module, and what str.strip and str.split take for blank
IsSpace(c) == c = " " \/ c = "\n" \/ c = "\t"

\* the emoji ranges of _strip_emojis; "^" stands for U+1F602
IsEmoji(c) == c = "^"

IndexIn(c, alphabet) == CHOOSE i \in 1..Len(alphabet) : Chr(alphabet, i) = c

\* the lower-case letter of each upper-case one
LowerOf == [c \in UpperChars |-> Chr(LowerAlphabet, IndexIn(c, UpperAlphabet))]

LowerCh(c) == IF IsUpper(c) THEN LowerOf[c] ELSE c

RECURSIVE Lower(_)
\* str.lower (the string is halved, so that the recursion stays shallow)
Lower(s) ==
    IF Len(s) = 0 THEN ""
    ELSE IF Len(s) = 1 THEN LowerCh(s)
    ELSE Lower(SubSeq(s, 1, Len(s) \div 2)) \o Lower(SubSeq(s, Len(s) \div 2 + 1, Len(s)))

\* w in t
Contains(t, w) == \E i \in 1..(Len(t) + 1 - Len(w)) : SubSeq(t, i, i + Len(w) - 1) = w

\* any(w in t for w in ws)
ContainsAny(t, ws) == \E w \in ws : Contains(t, w)

\* s.startswith(p)
StartsWith(s, p) == Len(p) <= Len(s) /\ SubSeq(s, 1, Len(p)) = p

\* s.endswith(p)
EndsWith(s, p) == Len(p) <= Len(s) /\ SubSeq(s, Len(s) + 1 - Len(p), Len(s)) = p

\* w occurs in t at position i
At(t, i, w) == i >= 1 /\ i + Len(w) - 1 <= Len(t) /\ SubSeq(t, i, i + Len(w) - 1) = w

SetMin(S) == CHOOSE x \in S : \A y \in S : x <= y

SetMax(S) == CHOOSE x \in S : \A y \in S : x >= y

\* the least position of a set of positions, 0 when there is none: where a search
\* of the re module, which goes from left to right, finds its match
First(S) == IF S = {} THEN 0 ELSE SetMin(S)

\* the least position >= from where w occurs in t, 0 when there is none (str.find + 1)
Find(t, w, from) == First({i \in from..(Len(t) + 1 - Len(w)) : At(t, i, w)})

\* s[i:] with i counted from 1
From(s, i) == SubSeq(s, i, Len(s))

\* the length of the longest run of characters with property P that s has from
\* position i on (what a greedy P* of the re module takes there)
Run(s, i, P(_)) ==
    CHOOSE k \in 0..(Len(s) + 1 - i) :
        /\ i + k > Len(s) \/ ~P(Chr(s, i + k))
        /\ \A x \in i..(i + k - 1) : P(Chr(s, x))

\* the number of whitespace characters at the head of s
SpacesAtHead(s) == Run(s, 1, IsSpace)

\* the number of whitespace characters at the tail of s
SpacesAtTail(s) ==
    CHOOSE k \in 0..Len(s) :
        /\ k = Len(s) \/ ~IsSpace(Chr(s, Len(s) - k))
        /\ \A x \in (Len(s) + 1 - k)..Len(s) : IsSpace(Chr(s, x))

\* str.lstrip
LStrip(s) == From(s, SpacesAtHead(s) + 1)

\* str.rstrip
RStrip(s) == SubSeq(s, 1, Len(s) - SpacesAtTail(s))

\* the first whitespace character of s, 0 when it has none
FirstSpace(s) == First({i \in 1..Len(s) : IsSpace(Chr(s, i))})

\* str.strip
Strip(s) == RStrip(LStrip(s))

\* s has a \w character at position i
IsWordAt(s, i) == i >= 1 /\ i <= Len(s) /\ IsWordChar(Chr(s, i))

\* \b of the re module at the gap before position i (1..Len(s)+1)
WordBoundary(s, i) == IsWordAt(s, i - 1) # IsWordAt(s, i)

RECURSIVE SplitOn(_, _)
\* the pieces of s between occurrences of the one-character sep, with no empty
\* piece after a final sep (as str.splitlines cuts at "\n")
SplitOn(s, sep) ==
    LET Cut(i) == IF s = "" THEN <<>>
                  ELSE IF i = 0 THEN <<s>>
                  ELSE <<SubSeq(s, 1, i - 1)>> \o SplitOn(From(s, i + 1), sep)
    IN Cut(Find(s, sep, 1))

\* str.splitlines
SplitLines(s) == SplitOn(s, "\n")

RECURSIVE Split(_)
\* str.split(): the whitespace-delimited tokens
Split(s) ==
    LET Cut(t, i) == IF t = "" THEN <<>>
                     ELSE IF i = 0 THEN <<t>>
                     ELSE <<SubSeq(t, 1, i - 1)>> \o Split(From(t, i))
        Tokens(t) == Cut(t, FirstSpace(t))
    IN Tokens(LStrip(s))

RECURSIVE Join(_, _)
\* sep.join(parts)
Join(parts, sep) ==
    IF parts = <<>> THEN ""
    ELSE IF Len(parts) = 1 THEN parts[1]
    ELSE parts[1] \o sep \o Join(Tail(parts), sep)


-----------------------------------------------------------------------------
(* Numbers as text, dates and times.  A datetime is its number of minutes  *)
(* since 1970-01-01T00:00Z; a date is its number of days since then.       *)

\* int(s) of a string of digits
RECURSIVE ParseInt(_)
ParseInt(s) ==
    IF s = "" THEN 0
    ELSE 10 * ParseInt(SubSeq(s, 1, Len(s) - 1)) + (IndexIn(Chr(s, Len(s)), DigitAlphabet) - 1)

\* s is one or more digits
IsDigits(s) == s # "" /\ \A i \in 1..Len(s) : IsDigit(Chr(s, i))

RECURSIVE IntToStr(_)
\* str(n), f"{n}" for n >= 0
IntToStr(n) ==
    IF n < 10 THEN Chr(DigitAlphabet, n + 1)
    ELSE IntToStr(n \div 10) \o Chr(DigitAlphabet, (n % 10) + 1)

\* f"{n:02d}", %m %d %H %M %S of strftime
Pad2(n) == (IF n < 10 THEN "0" ELSE "") \o IntToStr(n)

\* %Y of strftime
Pad4(n) ==
    (IF n < 10 THEN "000" ELSE IF n < 100 THEN "00" ELSE IF n < 1000 THEN "0" ELSE "") \o IntToStr(n)

MinutesPerDay == 1440

IsLeap(y) == (y % 4 = 0 /\ y % 100 # 0) \/ y % 400 = 0

DaysInMonth(y, m) ==
    IF m = 2 THEN (IF IsLeap(y) THEN 29 ELSE 28)
    ELSE IF m \in {4, 6, 9, 11} THEN 30 ELSE 31

\* what the date constructor accepts (datetime.MINYEAR..MAXYEAR)
IsValidDate(y, m, d) ==
    /\ y \in 1..9999
    /\ m \in 1..12
    /\ d \in 1..DaysInMonth(y, m)

\* date(y, m, d) as days since 1970-01-01 (proleptic Gregorian calendar)
DaysFromCivil(y, m, d) ==
    LET Days(era, yoe, doy) == era * 146097 + yoe * 365 + yoe \div 4 - yoe \div 100 + doy - 719468
        Of(yy, mp) == Days(yy \div 400, yy % 400, (153 * mp + 2) \div 5 + d - 1)
    IN Of(IF m <= 2 THEN y - 1 ELSE y, IF m > 2 THEN m - 3 ELSE m + 9)

\* the year, month and day of a date
CivilFromDays(z) ==
    LET Civil(era, yoe, doy, mp) ==
            [y |-> yoe + era * 400 + (IF mp >= 10 THEN 1 ELSE 0),
             m |-> IF mp < 10 THEN mp + 3 ELSE mp - 9,
             d |-> doy - (153 * mp + 2) \div 5 + 1]
        OfDay(era, yoe, doy) == Civil(era, yoe, doy, (5 * doy + 2) \div 153)
        OfYear(era, doe, yoe) == OfDay(era, yoe, doe - (365 * yoe + yoe \div 4 - yoe \div 100))
        OfEra(era, doe) ==
            OfYear(era, doe, (doe - doe \div 1460 + doe \div 36524 - doe \div 146096) \div 365)
        OfShifted(zz) == OfEra(zz \div 146097, zz % 146097)
    IN OfShifted(z + 719468)

\* dt.date()
DateOf(t) == t \div MinutesPerDay

\* dt.hour, dt.minute
HourOf(t) == (t % MinutesPerDay) \div 60

MinuteOf(t) == t % 60

\* dt.weekday(): Monday is 0; 1970-01-01 was a Thursday
Weekday(t) == (DateOf(t) + 3) % 7

\* An optional datetime: absent, present, or the exception raised on the way.
NoDt == [tag |-> "none"]

Dt(t) == [tag |-> "dt", t |-> t]

Raise(e) == [tag |-> "raise", exc |-> e]

\* datetime(y, m, d, h, mi, tzinfo=utc): ValueError outside the fields' ranges
MakeDatetime(y, m, d, h, mi) ==
    IF IsValidDate(y, m, d) /\ h \in 0..23 /\ mi \in 0..59
    THEN Dt(DaysFromCivil(y, m, d) * MinutesPerDay + h * 60 + mi)
    ELSE Raise("ValueError")

\* datetime(date.year, date.month, date.day, h, mi, tzinfo=utc) of a date in days
DatetimeOn(days, h, mi) ==
    LET On(c) == MakeDatetime(c.y, c.m, c.d, h, mi) IN On(CivilFromDays(days))

\* dt.strftime("%Y-%m-%d")
FormatDate(days) ==
    LET Of(c) == Pad4(c.y) \o "-" \o Pad2(c.m) \o "-" \o Pad2(c.d) IN Of(CivilFromDays(days))

-----------------------------------------------------------------------------
(* summaryflow_v3.py: platform-specific preprocessing.                     *)

\* the em dash U+2014 of _email_clean and _extract_people
EmDash == "~"

RECURSIVE CollapseSpaces(_)
\* re.sub(r"\s+", " ", text)
CollapseSpaces(s) ==
    LET Cut(i) == IF i = 0 THEN s
                  ELSE SubSeq(s, 1, i - 1) \o " " \o CollapseSpaces(LStrip(From(s, i)))
    IN Cut(FirstSpace(s))

_normalize_spacing(text) == Strip(CollapseSpaces(text))

RECURSIVE _strip_emojis(_)
_strip_emojis(text) ==
    LET Cut(i) == IF i = 0 THEN text
                  ELSE SubSeq(text, 1, i - 1) \o _strip_emojis(From(text, i + 1))
    IN Cut(First({i \in 1..Len(text) : IsEmoji(Chr(text, i))}))

\* how many times the character c is repeated in s from position i on
RunLen(s, i, c) == LET Same(x) == x = c IN Run(s, i, Same)

RECURSIVE CollapseRuns(_, _, _, _)
\* re.sub of each run of at least `least` equal characters by `keep` of them, the
\* character being any of `among`, or any but "\n" when among is "":
\*   (.)\1{2,} -> \1\1 is (s, 3, 2, "") and ([!?.])\1{1,} -> \1 is (s, 2, 1, "!?.")
CollapseRuns(s, least, keep, among) ==
    LET Ok(c) == IF among = "" THEN c # "\n" ELSE InStr(c, among)
        Cut(i, c) == IF i = 0 THEN s
                     ELSE SubSeq(s, 1, i - 1) \o (IF keep = 2 THEN c \o c ELSE c)
                            \o CollapseRuns(From(s, i + RunLen(s, i, c)), least, keep, among)
        CutAt(i) == Cut(i, Chr(s, i))
    IN CutAt(First({i \in 1..Len(s) : Ok(Chr(s, i)) /\ RunLen(s, i, Chr(s, i)) >= least}))

RECURSIVE DedupTokens(_)
\* the loop dropping a token equal to the one kept before it
DedupTokens(tokens) ==
    IF Len(tokens) <= 1 THEN tokens
    ELSE LET Add(front, tok) == IF tok # front[Len(front)] THEN Append(front, tok) ELSE front
         IN Add(DedupTokens(SubSeq(tokens, 1, Len(tokens) - 1)), tokens[Len(tokens)])

\* the tokens of t without the repeats, t itself when it has no token
DedupWords(t) ==
    LET Of(tokens) == IF tokens = <<>> THEN t ELSE Join(DedupTokens(tokens), " ") IN Of(Split(t))

_remove_duplicates(text) == DedupWords(CollapseRuns(text, 3, 2, ""))

\* re.match(r"^On .+ wrote:\s*$", line), with re.IGNORECASE when ignorecase
MatchesOnWrote(line, ignorecase) ==
    LET Matches(l) == /\ StartsWith(l, IF ignorecase THEN "on " ELSE "On ")
                      /\ EndsWith(l, " wrote:")
                      /\ Len(l) >= 11
                      /\ ~Contains(l, "\n")
    IN Matches(RStrip(IF ignorecase THEN Lower(line) ELSE line))

signature_markers ==
    {"--", "__", "Sent from my iPhone", "Sent from my Android", "Regards", "Best", "Thanks"}

forwarded_markers ==
    {"Forwarded message", "Begin forwarded message", "-----Original Message-----",
     "----- Forwarded Message -----", "From:", "Sent:", "To:"}

RECURSIVE EmailScan(_, _)
\* the loop of _email_clean over the lines; st is (subject, signature_started, cleaned_lines)
EmailScan(lines, st) ==
    LET Line(lstr) ==
            IF lstr = "" THEN st
            ELSE IF StartsWith(Lower(lstr), "subject:") /\ st.subject = None
            THEN [st EXCEPT !.subject = Strip(From(lstr, Find(lstr, ":", 1) + 1))]
            ELSE IF StartsWith(lstr, ">") THEN st
            ELSE IF \E m \in forwarded_markers : StartsWith(lstr, m) THEN st
            ELSE IF MatchesOnWrote(lstr, TRUE) THEN st
            ELSE IF st.signature_started \/ \E m \in signature_markers : StartsWith(lstr, m)
            THEN [st EXCEPT !.signature_started = TRUE]
            ELSE [st EXCEPT !.cleaned_lines = Append(@, lstr)]
    IN IF lines = <<>> THEN st ELSE EmailScan(Tail(lines), Line(Strip(Head(lines))))

\* s[:i-1], or s when i = 0: re.sub of a pattern ending in .* whose first match is at i
TruncateAt(s, i) == IF i = 0 THEN s ELSE SubSeq(s, 1, i - 1)

\* where (?i)\b<w>\b first matches in s, 0 when nowhere; w is in lower case
FindWordCI(s, w) ==
    LET In(l) == First({i \in 1..Len(s) :
                          At(l, i, w) /\ WordBoundary(s, i) /\ WordBoundary(s, i + Len(w))})
    IN In(Lower(s))

\* re.sub(r"(?i)\b<w>\b.*", "", s) of a text s of one line
CutFromWord(s, w) == TruncateAt(s, FindWordCI(s, w))

\* re.sub(r"(?i)\bOn .+ wrote:\b", "", body): the greedy .+ runs to the last " wrote:"
RemoveOnWrote(body) ==
    LET Cut(i, J) == IF i = 0 \/ J = {} \/ Contains(body, "\n") THEN body
                     ELSE SubSeq(body, 1, i - 1) \o From(body, SetMax(J) + 7)
        From1(l, i) ==
            Cut(i, {j \in (i + 4)..Len(body) : At(l, j, " wrote:") /\ WordBoundary(body, j + 7)})
        In(l) == From1(l, First({i \in 1..Len(body) : At(l, i, "on ") /\ WordBoundary(body, i)}))
    IN In(Lower(body))

\* re.sub(r"\s>[^\n]*", "", body) of a body of one line
RemoveQuoteTail(body) ==
    TruncateAt(body, First({i \in 1..(Len(body) - 1) : IsSpace(Chr(body, i)) /\ Chr(body, i + 1) = ">"}))

\* the chain of re.sub that _email_clean runs on the joined lines
EmailBody(body) ==
    _normalize_spacing(RemoveQuoteTail(
        CutFromWord(CutFromWord(CutFromWord(
            RemoveOnWrote(CutFromWord(CutFromWord(body, "begin forwarded message"),
                                      "forwarded message")),
            "from:"), "sent:"), "to:")))

\* the end of _email_clean: the subject, an em dash and the body
EmailCompose(subject, body) ==
    IF subject # None /\ subject # ""
    THEN (IF body # "" THEN subject \o " " \o EmDash \o " " \o body ELSE subject)
    ELSE body

\* _email_clean after its loop over the lines, which left st
EmailJoin(st) == EmailCompose(st.subject, EmailBody(_normalize_spacing(Join(st.cleaned_lines, " "))))

_email_clean(text) ==
    EmailJoin(EmailScan(SplitLines(text),
                        [subject |-> None, signature_started |-> FALSE, cleaned_lines |-> <<>>]))

\* the length of the longest run of \S characters (kind "S") or of \w characters
\* (kind "w") of s from position i on
RunWhile(s, i, kind) ==
    LET Of(c) == IF kind = "S" THEN ~IsSpace(c) ELSE IsWordChar(c) IN Run(s, i, Of)

RECURSIVE RemovePrefixed(_, _, _)
\* re.sub(r"<prefix><class>+", "", s) for the prefixes and the class (\S or \w) given
RemovePrefixed(s, prefixes, kind) ==
    LET Hit(i) == {p \in prefixes : At(s, i, p) /\ RunWhile(s, i + Len(p), kind) > 0}
        \* the match starts at i and its prefix ends before e
        Cut(i, e) == SubSeq(s, 1, i - 1)
                       \o RemovePrefixed(From(s, e + RunWhile(s, e, kind)), prefixes, kind)
        CutPrefix(i, p) == Cut(i, i + Len(p))
        CutAt(i) == IF i = 0 THEN s ELSE CutPrefix(i, CHOOSE p \in Hit(i) : TRUE)
    IN CutAt(First({i \in 1..Len(s) : Hit(i) # {}}))

\* re.search(r"\b(replying to|replied to)\b[:\s]*([\"']?)(.+?)\2(\.|!|\?|$)", text,
\* re.IGNORECASE): group 3 of the match, None when there is no match.  After the cue,
\* which ends before p, a match is k separator characters, q quote characters (0
\* or 1) and group 3 ending at e; the engine prefers the leftmost start, then the
\* most separators, then the quote, then the shortest group 3.
ReplySearch(text) ==
    LET n == Len(text)
        IsEnd(t) == \/ t = n + 1
                    \/ (t = n /\ Chr(text, n) = "\n")
                    \/ (t <= n /\ Chr(text, t) \in {".", "!", "?"})
        Sep(c) == c = ":" \/ IsSpace(c)
        \* q quote characters at position quote, then group 3 from g3 to e
        Ok(quote, q, g3, e) ==
            /\ q = 1 => (quote <= n /\ Chr(text, quote) \in {"\"", "'"})
            /\ g3 <= e
            /\ \A x \in g3..e : Chr(text, x) # "\n"
            /\ q = 1 => (e + 1 <= n /\ Chr(text, e + 1) = Chr(text, quote))
            /\ IsEnd(e + 1 + q)
        Cand(p) == {c \in (0..Run(text, p, Sep)) \X {0, 1} \X (p..n) :
                      Ok(p + c[1], c[2], p + c[1] + c[2], c[3])}
        Better(a, b) == \/ a[1] > b[1]
                        \/ (a[1] = b[1] /\ a[2] > b[2])
                        \/ (a[1] = b[1] /\ a[2] = b[2] /\ a[3] <= b[3])
        Best(C) == CHOOSE a \in C : \A b \in C : Better(a, b)
        Group3(p, c) == SubSeq(text, p + c[1] + c[2], c[3])
        AfterCue(p) == Group3(p, Best(Cand(p)))
        CueLen(l, i) == IF At(l, i, "replying to") THEN 11 ELSE IF At(l, i, "replied to") THEN 10 ELSE 0
        \* where the cue of k characters at i ends, 0 when there is no cue between \b and \b
        CueEnd(i, k) == IF k > 0 /\ WordBoundary(text, i) /\ WordBoundary(text, i + k) THEN i + k ELSE 0
        Matches(p) == p # 0 /\ Cand(p) # {}
        Found(l, i) == IF i = 0 THEN None ELSE AfterCue(i + CueLen(l, i))
        In(l) == Found(l, First({i \in 1..n : Matches(CueEnd(i, CueLen(l, i)))}))
    IN In(Lower(text))

\* the end of _instagram_clean: m is group 3 of the reply search (or None) and t
\* the text with its spacing normalized
InstagramCompose(m, t) ==
    LET reply_context == IF m = None THEN None ELSE Strip(m)
    IN IF reply_context # None /\ reply_context # "" /\ ~Contains(t, reply_context)
       THEN "In reply to: " \o reply_context \o ". " \o t
       ELSE t

\* _instagram_clean from the reply search on, t being the text without links and hashtags
InstagramReply(t) == InstagramCompose(ReplySearch(t), _normalize_spacing(t))

_instagram_clean(text) ==
    InstagramReply(RemovePrefixed(RemovePrefixed(RemovePrefixed(text, {"http://", "https://"}, "S"),
                                                 {"www."}, "S"),
                                  {"#"}, "w"))

_preprocess_text(platform, text) ==
    LET p == Lower(platform)
    IN IF p = "whatsapp" THEN _normalize_spacing(_remove_duplicates(_strip_emojis(text)))
       ELSE IF p = "email" THEN _email_clean(text)
       ELSE IF p \in {"instagram", "instagram dm", "ig", "insta"} THEN _instagram_clean(text)
       ELSE _normalize_spacing(text)

-----------------------------------------------------------------------------
(* summaryflow_v3.py: entity extraction.                                   *)

\* the length of [A-Z][a-z]+ matched at position p of s, 0 when it does not match
CapWordLen(s, p) ==
    IF p < Len(s) /\ IsUpper(Chr(s, p)) /\ IsLower(Chr(s, p + 1))
    THEN 1 + Run(s, p + 1, IsLower)
    ELSE 0

RECURSIVE CapSeqEnd(_, _)
\* where the greedy [A-Z][a-z]+(?:\s+[A-Z][a-z]+)* matched at p ends (first position after it)
CapSeqEnd(s, p) ==
    LET \* a word ends before e, and the blanks after it before a
        More(e, a) == IF a > e /\ CapWordLen(s, a) > 0 THEN CapSeqEnd(s, a) ELSE e
        After(e) == More(e, e + SpacesAtHead(From(s, e)))
    IN After(p + CapWordLen(s, p))

RECURSIVE CueNames(_, _, _)
\* re.finditer / re.findall of \b(?:<cues>)\s+([A-Z][a-z]+(?:\s+[A-Z][a-z]+)*) from
\* position pos on: the names (group 1) in order
CueNames(text, cues, pos) ==
    LET \* where the name is, the cue ending before e
        NameAt(e) == e + SpacesAtHead(From(text, e))
        IsName(e, a) == a > e /\ CapWordLen(text, a) > 0
        Hit(i) == {c \in cues : At(text, i, c) /\ IsName(i + Len(c), NameAt(i + Len(c)))}
        Take(a, e) == <<SubSeq(text, a, e - 1)>> \o CueNames(text, cues, e)
        TakeName(a) == Take(a, CapSeqEnd(text, a))
        TakeCue(i, c) == TakeName(NameAt(i + Len(c)))
        TakeAt(i) == IF i = 0 THEN <<>> ELSE TakeCue(i, CHOOSE c \in Hit(i) : TRUE)
    IN TakeAt(First({i \in pos..Len(text) : WordBoundary(text, i) /\ Hit(i) # {}}))

RECURSIVE CapTokens(_, _)
\* re.findall(r"\b([A-Z][a-z]+)\b", text) from position pos on
CapTokens(text, pos) ==
    LET Take(i, e) == <<SubSeq(text, i, e - 1)>> \o CapTokens(text, e)
        TakeAt(i) == IF i = 0 THEN <<>> ELSE Take(i, i + CapWordLen(text, i))
        IsToken(i, k) == k > 0 /\ WordBoundary(text, i + k)
    IN TakeAt(First({i \in pos..Len(text) :
                       WordBoundary(text, i) /\ IsToken(i, CapWordLen(text, i))}))

InSeq(x, seq) == \E i \in 1..Len(seq) : seq[i] = x

RECURSIVE AddUnique(_, _)
\* for name in names: if name and name not in people: people.append(name)
AddUnique(people, names) ==
    IF names = <<>> THEN people
    ELSE AddUnique(IF Head(names) # "" /\ ~InSeq(Head(names), people)
                   THEN Append(people, Head(names)) ELSE people,
                   Tail(names))

people_stop ==
    {"hey", "please", "confirm", "tomorrow", "meeting", "pm", "am", "hello", "update",
     "subject", "let", "thanks", "regards", "reminder"}

\* re.sub(r"^(\s*Reminder\b[\s:\-<en dash><em dash>]*)", "", text)
StripReminderPrefix(text) ==
    LET Sep(c) == IsSpace(c) \/ c \in {":", "-", EmDash}
        Cut(a, b) == IF At(text, a, "Reminder") /\ WordBoundary(text, b)
                     THEN From(text, b + Run(text, b, Sep)) ELSE text
        CutAt(a) == Cut(a, a + 8)
    IN CutAt(SpacesAtHead(text) + 1)

\* text.split(EmDash, 1)[1] or text.split(" - ", 1)[1], text when it has neither
AfterDash(text) ==
    IF Contains(text, EmDash) THEN From(text, Find(text, EmDash, 1) + 1)
    ELSE IF Contains(text, " - ") THEN From(text, Find(text, " - ", 1) + 3)
    ELSE text

\* text.split(":", 1)[1] of a text that starts with "subject:"
AfterSubject(text) ==
    IF StartsWith(Lower(text), "subject:") THEN From(text, Find(text, ":", 1) + 1) ELSE text

\* [n for n in names if n.lower() not in stop]
NotStopped(names) == SelectSeq(names, LAMBDA n : Lower(n) \notin people_stop)

_extract_people(text) ==
    NotStopped(
        AddUnique(AddUnique(AddUnique(<<>>, CueNames(text, {"with", "from", "to", "cc", "attn"}, 1)),
                            CueNames(text, {"Mr.", "Mrs.", "Ms.", "Dr."}, 1)),
                  NotStopped(CapTokens(StripReminderPrefix(AfterSubject(AfterDash(text))), 1))))

-----------------------------------------------------------------------------
(* summaryflow_v3.py: time parsing and formatting, date-time resolution.   *)

\* dt.astimezone(timezone.utc).strftime("%Y-%m-%dT%H:%M:%SZ")
_format_iso_utc(t) ==
    FormatDate(DateOf(t)) \o "T" \o Pad2(HourOf(t)) \o ":" \o Pad2(MinuteOf(t)) \o ":00Z"

\* the fields of "YYYY-MM-DDTHH:MM:SS" at the head of ts, as strptime and
\* fromisoformat read them in their fixed-width form; ok tells that they are digits,
\* with the separators in place
IsoFields(ts) ==
    LET F(a, b) == SubSeq(ts, a, b)
        ok == /\ Len(ts) >= 19
              /\ IsDigits(F(1, 4)) /\ IsDigits(F(6, 7)) /\ IsDigits(F(9, 10))
              /\ IsDigits(F(12, 13)) /\ IsDigits(F(15, 16)) /\ IsDigits(F(18, 19))
              /\ F(5, 5) = "-" /\ F(8, 8) = "-" /\ F(11, 11) = "T"
              /\ F(14, 14) = ":" /\ F(17, 17) = ":"
    IN IF ok
       THEN [ok |-> TRUE, y |-> ParseInt(F(1, 4)), mo |-> ParseInt(F(6, 7)), d |-> ParseInt(F(9, 10)),
             h |-> ParseInt(F(12, 13)), mi |-> ParseInt(F(15, 16)), s |-> ParseInt(F(18, 19))]
       ELSE [ok |-> FALSE, y |-> 0, mo |-> 0, d |-> 0, h |-> 0, mi |-> 0, s |-> 0]

\* _parse_iso_utc of v3 and v4, and the try block of _parse_anchor: the datetime,
\* NoDt for what the except clause catches.  A text ending in "Z" goes to
\* strptime("%Y-%m-%dT%H:%M:%SZ"); another one to fromisoformat, read here in the
\* forms with an offset "+HH:MM" or "-HH:MM".
_parse_iso_utc(ts) ==
    LET Valid(f) == f.ok /\ IsValidDate(f.y, f.mo, f.d) /\ f.h <= 23 /\ f.mi <= 59 /\ f.s <= 59
        Local(f) == DaysFromCivil(f.y, f.mo, f.d) * MinutesPerDay + f.h * 60 + f.mi
        OffsetOk(oh, om) == IsDigits(oh) /\ IsDigits(om) /\ ParseInt(oh) <= 23 /\ ParseInt(om) <= 59
        Shifted(sign, local, offset) == Dt(IF sign = "+" THEN local - offset ELSE local + offset)
        Of(f) ==
            IF EndsWith(ts, "Z")
            THEN (IF Valid(f) /\ Len(ts) = 20 THEN Dt(Local(f)) ELSE NoDt)
            ELSE IF /\ Valid(f) /\ Len(ts) = 25
                    /\ SubSeq(ts, 20, 20) \in {"+", "-"} /\ SubSeq(ts, 23, 23) = ":"
                    /\ OffsetOk(SubSeq(ts, 21, 22), SubSeq(ts, 24, 25))
                 THEN Shifted(SubSeq(ts, 20, 20), Local(f),
                              ParseInt(SubSeq(ts, 21, 22)) * 60 + ParseInt(SubSeq(ts, 24, 25)))
                 ELSE NoDt
    IN Of(IsoFields(ts))

weekdays == <<"monday", "tuesday", "wednesday", "thursday", "friday", "saturday", "sunday">>

\* default_times in the order the dict is iterated
default_times ==
    <<[k |-> "morning", h |-> 9, m |-> 0], [k |-> "afternoon", h |-> 15, m |-> 0],
      [k |-> "evening", h |-> 18, m |-> 0], [k |-> "tonight", h |-> 20, m |-> 0],
      [k |-> "eod", h |-> 17, m |-> 0], [k |-> "end of day", h |-> 17, m |-> 0]>>

\* re.search(r"\bin\s+(\d+)\s+(minutes|minute|hours|hour|days|day)\b", text_lower):
\* (val, unit) of the leftmost match, val = -1 when there is none
RelSearch(t) ==
    LET Units == <<"minutes", "minute", "hours", "hour", "days", "day">>
        Blanks(p) == p + SpacesAtHead(From(t, p))
        Digits(p) == p + Run(t, p, IsDigit)
        UnitsAt(u) == {k \in 1..6 : At(t, u, Units[k]) /\ WordBoundary(t, u + Len(Units[k]))}
        \* "in" ends before e, the number runs from a to before b, the unit is at u
        Ok3(e, a, b, u) == a > e /\ b > a /\ u > b /\ UnitsAt(u) # {}
        Ok2(e, a, b) == Ok3(e, a, b, Blanks(b))
        Ok1(e, a) == Ok2(e, a, Digits(a))
        Ok(i) == WordBoundary(t, i) /\ At(t, i, "in") /\ Ok1(i + 2, Blanks(i + 2))
        Groups2(a, b) ==
            [val |-> ParseInt(SubSeq(t, a, b - 1)), unit |-> Units[SetMin(UnitsAt(Blanks(b)))]]
        Groups1(a) == Groups2(a, Digits(a))
        Groups(i) == IF i = 0 THEN [val |-> -1, unit |-> ""] ELSE Groups1(Blanks(i + 2))
    IN Groups(First({i \in 1..Len(t) : Ok(i)}))

\* re.search(r"\b(\d{1,2})(?::(\d{2}))?\s*(am|pm|AM|PM)?\b", text): the groups of the
\* leftmost match (hour and minute as text, "" for a group that took no part),
\* found FALSE when there is none.  At a start the digits are the whole run of one
\* or two digits; the engine tries ":MM" before going without, all the blanks
\* before none, and am/pm before going without.
TimeSearch(text) ==
    LET Blanks(p) == p + SpacesAtHead(From(text, p))
        AmPmAt(r) == (\E a \in {"am", "pm", "AM", "PM"} : At(text, r, a)) /\ WordBoundary(text, r + 2)
        \* the tail \s*(am|pm|AM|PM)?\b from position q, the blanks ending before r: 2 with
        \* am/pm after all blanks, 1 without am/pm after all blanks, 0 without am/pm and
        \* without blanks, -1 no match
        Tail1(q, r) == IF AmPmAt(r) THEN 2
                       ELSE IF WordBoundary(text, r) THEN 1
                       ELSE IF WordBoundary(text, q) THEN 0
                       ELSE -1
        TailAt(q) == Tail1(q, Blanks(q))
        HasMin(p) == At(text, p, ":") /\ Run(text, p + 1, IsDigit) >= 2 /\ TailAt(p + 3) >= 0
        \* the hour runs from i to before p, the tail starts at q (p + 3 after ":MM")
        Groups3(i, p, q, tail) ==
            [found |-> p > i /\ tail >= 0,
             hour |-> SubSeq(text, i, p - 1),
             minute |-> IF q > p THEN SubSeq(text, p + 1, p + 2) ELSE "",
             ampm |-> IF tail = 2 THEN SubSeq(text, Blanks(q), Blanks(q) + 1) ELSE ""]
        Groups2(i, p, q) == Groups3(i, p, q, TailAt(q))
        Groups1(i, p) == Groups2(i, p, IF HasMin(p) THEN p + 3 ELSE p)
        Try(i) == Groups1(i, i + (IF Run(text, i, IsDigit) >= 2 THEN 2 ELSE Run(text, i, IsDigit)))
        Groups(i) == IF i = 0 THEN [found |-> FALSE, hour |-> "", minute |-> "", ampm |-> ""]
                     ELSE Try(i)
    IN Groups(First({i \in 1..Len(text) :
                       WordBoundary(text, i) /\ IsDigit(Chr(text, i)) /\ Try(i).found}))

\* re.search(r"\b(\d{4})-(\d{2})-(\d{2})\b", text): where it matches first, 0 if nowhere
IsoDateSearch(text) ==
    First({i \in 1..Len(text) :
             /\ WordBoundary(text, i)
             /\ i + 9 <= Len(text)
             /\ IsDigits(SubSeq(text, i, i + 3)) /\ Chr(text, i + 4) = "-"
             /\ IsDigits(SubSeq(text, i + 5, i + 6)) /\ Chr(text, i + 7) = "-"
             /\ IsDigits(SubSeq(text, i + 8, i + 9))
             /\ WordBoundary(text, i + 10)})

months == <<"Jan", "Feb", "Mar", "Apr", "May", "Jun", "Jul", "Aug", "Sep", "Oct", "Nov", "Dec">>

\* re.search(r"\b(Jan|...|Dec)\s+(\d{1,2})\b", text): month number and day of the
\* leftmost match, month 0 when there is none
MonthDaySearch(text) ==
    LET Blanks(p) == p + SpacesAtHead(From(text, p))
        Digits(p) == p + Run(text, p, IsDigit)
        MonthAt(i) == {m \in 1..12 : At(text, i, months[m])}
        \* the month ends before e, the day runs from a to before b
        IsDay(e, a, b) == a > e /\ b - a \in {1, 2} /\ WordBoundary(text, b)
        DayAt(e, a) == IsDay(e, a, Digits(a))
        Ok(i) == WordBoundary(text, i) /\ MonthAt(i) # {} /\ DayAt(i + 3, Blanks(i + 3))
        Groups1(i, a) == [month |-> SetMin(MonthAt(i)), day |-> ParseInt(SubSeq(text, a, Digits(a) - 1))]
        Groups(i) == IF i = 0 THEN [month |-> 0, day |-> 0] ELSE Groups1(i, Blanks(i + 3))
    IN Groups(First({i \in 1..Len(text) : Ok(i)}))

\* day_offset: the days from the anchor to the day that the text names
DayOffset(text_lower, anchor) ==
    LET W == {i \in 1..7 : Contains(text_lower, weekdays[i])}
        diff == ((SetMin(W) - 1) - Weekday(anchor)) % 7
    IN IF W = {} THEN (IF Contains(text_lower, "tomorrow") THEN 1 ELSE 0)
       ELSE IF diff = 0 THEN 7 ELSE diff

\* a conversion that adds twelve hours to every pm hour and leaves every am hour
HourPlusTwelve(hour, ampm) == IF ampm = "pm" THEN hour + 12 ELSE hour

\* hour of the 24-hour clock, from group 1 and the lower-cased group 3 of the time match
Hour24(hour, ampm) ==
    IF ampm = "pm" /\ hour # 12 THEN hour + 12
    ELSE IF ampm = "am" /\ hour = 12 THEN 0
    ELSE hour

\* the branch of a time match tm: the target date at that time
ClockTime(target_date, tm) ==
    DatetimeOn(target_date, Hour24(ParseInt(tm.hour), Lower(tm.ampm)),
               IF tm.minute # "" THEN ParseInt(tm.minute) ELSE 0)

\* the branch without a time match: an ISO date at iso, or the month and day md
ExplicitDate(text, anchor, iso, md) ==
    IF iso # 0
    THEN MakeDatetime(ParseInt(SubSeq(text, iso, iso + 3)), ParseInt(SubSeq(text, iso + 5, iso + 6)),
                      ParseInt(SubSeq(text, iso + 8, iso + 9)), 0, 0)
    ELSE IF md.month # 0
    THEN MakeDatetime(CivilFromDays(DateOf(anchor)).y, md.month, md.day, 0, 0)
    ELSE NoDt

\* the branch of a relative match rel: anchor + timedelta
RelativeTime(anchor, rel) ==
    IF StartsWith(rel.unit, "minute") THEN Dt(anchor + rel.val)
    ELSE IF StartsWith(rel.unit, "hour") THEN Dt(anchor + rel.val * 60)
    ELSE Dt(anchor + rel.val * MinutesPerDay)

\* _extract_datetime from the time search on
ResolveTime(text, anchor, target_date, tm) ==
    IF ~tm.found THEN ExplicitDate(text, anchor, IsoDateSearch(text), MonthDaySearch(text))
    ELSE ClockTime(target_date, tm)

\* _extract_datetime from the relative search on
ResolveRelative(text, anchor, target_date, rel) ==
    IF rel.val >= 0 THEN RelativeTime(anchor, rel)
    ELSE ResolveTime(text, anchor, target_date, TimeSearch(text))

\* _extract_datetime from the loop over default_times on, K being the keys that the text has
ResolveDefault(text, text_lower, anchor, target_date, K) ==
    IF K # {} THEN DatetimeOn(target_date, default_times[SetMin(K)].h, default_times[SetMin(K)].m)
    ELSE ResolveRelative(text, anchor, target_date, RelSearch(text_lower))

\* _extract_datetime after text_lower = text.lower()
ResolveIn(text, text_lower, anchor) ==
    ResolveDefault(text, text_lower, anchor,
                   DateOf(anchor + DayOffset(text_lower, anchor) * MinutesPerDay),
                   {i \in 1..6 : Contains(text_lower, default_times[i].k)})

\* the Optional[datetime] of _extract_datetime, or the exception it raises
_extract_datetime(text, anchor) == ResolveIn(text, Lower(text), anchor)

-----------------------------------------------------------------------------
(* summaryflow_v3.py: classification and the summary text.                 *)

\* a cascade that looks for the keywords of a note before those of a reminder
TypeOfNoteFirst(t) ==
       IF ContainsAny(t, {"meeting", "meet", "appointment", "call", "schedule", "reschedule",
                          "cancel", "talk", "chat"}) THEN "meeting"
       ELSE IF ContainsAny(t, {"fyi", "for your information", "note", "heads up", "update"}) THEN "note"
       ELSE IF ContainsAny(t, {"reminder", "don't forget", "dont forget", "remember", "due",
                               "deadline", "by eod", "eod", "by "}) THEN "reminder"
       ELSE IF ContainsAny(t, {"task", "todo", "action item", "assign", "please", "can you",
                               "could you"}) THEN "task"
       ELSE IF ContainsAny(t, {"question", "?", "ask", "clarify", "who", "what", "when", "where",
                               "how", "why"}) THEN "question"
       ELSE "message"

\* _classify_type on t = text.lower()
TypeOf(t) ==
       IF ContainsAny(t, {"meeting", "meet", "appointment", "call", "schedule", "reschedule",
                          "cancel", "talk", "chat"}) THEN "meeting"
       ELSE IF ContainsAny(t, {"reminder", "don't forget", "dont forget", "remember", "due",
                               "deadline", "by eod", "eod", "by "}) THEN "reminder"
       ELSE IF ContainsAny(t, {"fyi", "for your information", "note", "heads up", "update"}) THEN "note"
       ELSE IF ContainsAny(t, {"task", "todo", "action item", "assign", "please", "can you",
                               "could you"}) THEN "task"
       ELSE IF ContainsAny(t, {"question", "?", "ask", "clarify", "who", "what", "when", "where",
                               "how", "why"}) THEN "question"
       ELSE "message"

_classify_type(text) == TypeOf(Lower(text))

\* the values that _classify_type returns
Types == {"meeting", "reminder", "note", "task", "question", "message"}

\* _classify_intent on t = text.lower()
IntentOf(t, msg_type) ==
       IF msg_type = "meeting"
       THEN (IF Contains(t, "confirm") \/ Contains(t, "confirmation") THEN "confirm_meeting"
             ELSE IF Contains(t, "schedule") \/ Contains(t, "set up") \/ Contains(t, "book")
             THEN "schedule_meeting"
             ELSE IF Contains(t, "reschedule") \/ Contains(t, "move") \/ Contains(t, "postpone")
             THEN "reschedule_meeting"
             ELSE IF Contains(t, "cancel") THEN "cancel_meeting"
             ELSE "inform_meeting")
       ELSE IF msg_type = "reminder"
               \/ ContainsAny(t, {"reminder", "don't forget", "dont forget", "remember", "due",
                                  "deadline", "by eod", "eod"}) THEN "reminder"
       ELSE IF msg_type = "note" THEN "informational"
       ELSE IF ContainsAny(t, {"urgent", "asap", "immediately", "high priority", "priority"})
       THEN "urgent_request"
       ELSE IF ContainsAny(t, {"can you", "please", "could you", "send", "share", "help", "assign",
                               "finish", "complete"}) THEN "request"
       ELSE IF ContainsAny(t, {"update", "any update", "follow up", "follow-up", "status"})
       THEN "follow_up"
       ELSE IF ContainsAny(t, {"question", "?", "how", "what", "why", "when", "where"}) THEN "question"
       ELSE "informational"

_classify_intent(text, msg_type) == IntentOf(Lower(text), msg_type)

\* the values that _classify_intent returns
DetailedIntents ==
    {"confirm_meeting", "schedule_meeting", "reschedule_meeting", "cancel_meeting",
     "inform_meeting", "reminder", "informational", "urgent_request", "request", "follow_up",
     "question"}

\* t.count("!")
CountBangs(t) == Cardinality({i \in 1..Len(t) : Chr(t, i) = "!"})

\* tiers that leave out their upper ends: hours < 6, hours < 48
DateTierBelow(minutes) ==
    IF minutes < 6 * 60 THEN "high" ELSE IF minutes < 48 * 60 THEN "medium" ELSE "low"

\* the tiers of _classify_urgency for delta = target_dt - anchor, in minutes:
\* hours <= 6, hours <= 48, else
DateTier(minutes) ==
    IF minutes <= 6 * 60 THEN "high" ELSE IF minutes <= 48 * 60 THEN "medium" ELSE "low"

\* a classification that looks at the resolved datetime before the keywords
UrgencyByDateFirst(text, target_dt, anchor) ==
    LET t == Lower(text)
        minutes == target_dt.t - anchor
    IN IF target_dt # NoDt
       THEN (IF minutes <= 6 * 60 THEN "high" ELSE IF minutes <= 48 * 60 THEN "medium" ELSE "low")
       ELSE IF ContainsAny(t, {"emergency", "critical", "urgent", "asap", "immediately",
                               "high priority", "priority"}) THEN "high"
       ELSE IF CountBangs(t) >= 3 THEN "high"
       ELSE "low"

\* target_dt is an optional datetime (NoDt or Dt), anchor a datetime
_classify_urgency(text, target_dt, anchor) ==
    LET t == Lower(text)
    IN IF ContainsAny(t, {"emergency", "critical", "urgent", "asap", "immediately",
                          "high priority", "priority"}) THEN "high"
       ELSE IF CountBangs(t) >= 3 THEN "high"
       ELSE IF target_dt # NoDt THEN DateTier(target_dt.t - anchor)
       ELSE IF ContainsAny(t, {"soon", "tomorrow", "today", "eod", "end of day", "tonight"})
       THEN "medium"
       ELSE "low"

\* intent_map.get(intent, "User message")
intent_map(intent) ==
    CASE intent = "confirm_meeting" -> "User wants confirmation"
      [] intent = "schedule_meeting" -> "User wants to schedule"
      [] intent = "reschedule_meeting" -> "User wants to reschedule"
      [] intent = "cancel_meeting" -> "User wants to cancel"
      [] intent = "inform_meeting" -> "User shares an update"
      [] intent = "reminder" -> "User shares a reminder"
      [] intent = "urgent_request" -> "User has an urgent request"
      [] intent = "request" -> "User requests"
      [] intent = "follow_up" -> "User is following up"
      [] intent = "question" -> "User asks a question"
      [] intent = "informational" -> "User shares information"
      [] OTHER -> "User message"

\* when_phrase: "today", "tomorrow" or "on <date>"
WhenPhrase(day_diff, date) ==
    IF day_diff = 0 THEN "today"
    ELSE IF day_diff = 1 THEN "tomorrow"
    ELSE "on " \o FormatDate(date)

\* time_phrase: the time on the 12-hour clock
TimePhrase(hour, minute) ==
    IntToStr(IF hour % 12 = 0 THEN 12 ELSE hour % 12)
      \o (IF minute # 0 THEN ":" \o Pad2(minute) ELSE "")
      \o (IF hour < 12 THEN " AM" ELSE " PM")

_build_summary(message_text, intent, msg_type, people, target_dt, anchor_ts) ==
    LET lead == intent_map(intent)
        person_phrase == IF people # <<>> THEN " with " \o Join(people, ", ") ELSE ""
        link == IF intent = "confirm_meeting" THEN " for a " ELSE " about a "
    IN IF msg_type = "meeting"
       THEN (IF target_dt # NoDt
             THEN lead \o link \o TimePhrase(HourOf(target_dt.t), MinuteOf(target_dt.t))
                    \o " meeting" \o person_phrase \o " "
                    \o WhenPhrase(DateOf(target_dt.t) - DateOf(anchor_ts), DateOf(target_dt.t)) \o "."
             ELSE lead \o link \o "meeting" \o person_phrase \o ".")
       ELSE lead \o "."

-----------------------------------------------------------------------------
(* context_cleaner_v4.py: the cleaning that summaryflow_v4 runs before the *)
(* platform preprocessing.                                                 *)

RECURSIVE ReplaceAll(_, _, _)
\* str.replace(old, new) for a one-character old
ReplaceAll(s, old, new) ==
    LET Cut(i) == IF i = 0 THEN s
                  ELSE SubSeq(s, 1, i - 1) \o new \o ReplaceAll(From(s, i + 1), old, new)
    IN Cut(Find(s, old, 1))

\* emoji.demojize: each emoji becomes its ":name:" shortcode
normalize_emojis(text) == ReplaceAll(text, "^", ":face_with_tears_of_joy:")

quote_markers ==
    <<"Forwarded message", "Begin forwarded message", "-----Original Message-----",
      "----- Forwarded Message -----", "From:", "Sent:", "To:">>

RECURSIVE QuoteScan(_, _, _)
\* the loop over the lines of remove_forwards_quotes, with its skip flag and out list
QuoteScan(lines, skip, out) ==
    LET Step(l, rest) ==
            IF skip /\ l = "" THEN QuoteScan(rest, FALSE, out)
            ELSE IF skip THEN QuoteScan(rest, skip, out)
            ELSE IF StartsWith(l, ">") THEN QuoteScan(rest, skip, out)
            ELSE IF MatchesOnWrote(l, FALSE) THEN QuoteScan(rest, TRUE, out)
            ELSE IF \E k \in 1..Len(quote_markers) : StartsWith(l, quote_markers[k])
            THEN QuoteScan(rest, skip, out)
            ELSE QuoteScan(rest, skip, Append(out, l))
    IN IF lines = <<>> THEN out ELSE Step(Strip(lines[1]), Tail(lines))

\* the length of the run of "-" of s from position i on
DashRun(s, i) == RunLen(s, i, "-")

\* re.match(r"(?i)^-----+\s*(Original|Forwarded)\s*Message\s*-----+$", line)
MatchesDashedMarker(line) ==
    LET Dashes(d) == Len(d) >= 5 /\ DashRun(d, 1) = Len(d)
        Message(c) == StartsWith(c, "message") /\ Dashes(LStrip(From(c, 8)))
        Word(a) == IF StartsWith(a, "original") THEN Message(LStrip(From(a, 9)))
                   ELSE IF StartsWith(a, "forwarded") THEN Message(LStrip(From(a, 10)))
                   ELSE FALSE
        After(l, d1) == d1 >= 5 /\ Word(LStrip(From(l, d1 + 1)))
        In(l) == After(l, DashRun(l, 1))
    IN In(Lower(line))

\* the five re.sub(r"(?mi)^...$", "", x) of remove_forwards_quotes on one line
BlankQuoteLine(line) ==
    LET l == Lower(line)
    IN IF \/ StartsWith(l, "begin forwarded message")
          \/ StartsWith(l, "forwarded message")
          \/ MatchesDashedMarker(line)
          \/ MatchesOnWrote(line, TRUE)
          \/ StartsWith(line, ">")
       THEN "" ELSE line

\* the lines that the five re.sub leave non-empty
BlankQuoteLines(out) ==
    SelectSeq([k \in 1..Len(out) |-> BlankQuoteLine(out[k])], LAMBDA l : l # "")

remove_forwards_quotes(text) ==
    Strip(Join(BlankQuoteLines(QuoteScan(SplitLines(text), FALSE, <<>>)), "\n"))

\* detect_reply_chains, m being group 3 of the reply search on the text (or None)
ReplyMeta(text, m) ==
    LET t == Lower(text)
        lines == SplitLines(text)
    IN IF m # None THEN [is_reply |-> "true", reply_to |-> Strip(m)]
       ELSE IF Contains(t, "re:") \/ Contains(t, "fw:") \/ Contains(t, "fwd:")
       THEN [is_reply |-> "true", reply_to |-> "thread"]
       ELSE IF \E k \in 1..Len(lines) : MatchesOnWrote(lines[k], FALSE)
       THEN [is_reply |-> "true", reply_to |-> "quoted"]
       ELSE [is_reply |-> "false", reply_to |-> ""]

detect_reply_chains(text) == ReplyMeta(text, ReplySearch(text))

detect_repeated_text(text) == DedupWords(CollapseRuns(CollapseRuns(text, 2, 1, "!?."), 3, 2, ""))

unify_punctuation(text) == Strip(CollapseSpaces(ReplaceAll(text, EmDash, "-")))

\* the return value of clean_all, x being the cleaned text
Cleaned(x) == [text |-> x, meta |-> detect_reply_chains(x)]

clean_all(platform, text) ==
    Cleaned(detect_repeated_text(normalize_emojis(unify_punctuation(remove_forwards_quotes(text)))))

-----------------------------------------------------------------------------
(* summaryflow_v4.py: the mappings onto the interface's value sets.        *)

\* a mapping that hands the type on as it is
TypeAsIntent(msg_type) == Lower(msg_type)

_map_type_to_api_intent(msg_type) ==
    LET t == Lower(msg_type)
    IN IF t \in {"meeting", "reminder", "question", "task"} THEN t ELSE "note"

\* _detect_device_context on t = raw_text.lower()
DeviceOf(t) ==
    IF Contains(t, "sent from my iphone") \/ Contains(t, "ios") THEN "ios"
    ELSE IF Contains(t, "sent from my android") \/ Contains(t, "android") THEN "android"
    ELSE IF Contains(t, "windows") THEN "windows"
    ELSE IF Contains(t, "mac os x") \/ Contains(t, "macos") \/ Contains(t, "mac") THEN "macos"
    ELSE IF Contains(t, "web") \/ Contains(t, "via web") THEN "web"
    ELSE "unknown"

_detect_device_context(platform, raw_text) == DeviceOf(Lower(raw_text))

-----------------------------------------------------------------------------
(* json.dumps and json.loads on the entities of a record.                  *)

RECURSIVE JsonEscape(_)
\* the body of a JSON string: json.dumps escapes the quote, the backslash and the
\* control characters
JsonEscape(s) ==
    LET Esc(c) == IF c = "\n" THEN "\\n" ELSE IF c = "\t" THEN "\\t" ELSE "\\" \o c
        Cut(i) == IF i = 0 THEN s
                  ELSE SubSeq(s, 1, i - 1) \o Esc(Chr(s, i)) \o JsonEscape(From(s, i + 1))
    IN Cut(First({i \in 1..Len(s) : Chr(s, i) \in {"\"", "\\", "\n", "\t"}}))

JsonString(s) == "\"" \o JsonEscape(s) \o "\""

RECURSIVE JsonList(_)
JsonList(items) ==
    IF items = <<>> THEN ""
    ELSE JsonString(items[1]) \o (IF Len(items) > 1 THEN ", " ELSE "") \o JsonList(Tail(items))

\* json.dumps(entities, ensure_ascii=False) of {"person": [...], "datetime": ...}
json_dumps(entities) ==
    "{\"person\": [" \o JsonList(entities.person) \o "], \"datetime\": "
      \o (IF entities.datetime = None THEN "null" ELSE JsonString(entities.datetime)) \o "}"

RECURSIVE JsonReadString(_, _, _)
\* the JSON string whose opening quote is before position i of s: its value and
\* the position after its closing quote (0 when the string does not close)
JsonReadString(s, i, acc) ==
    LET Unescape(c) == IF c = "n" THEN "\n" ELSE IF c = "t" THEN "\t" ELSE c
        \* the first quote or backslash from i on is at k
        Read(k) ==
            IF k = 0 THEN [value |-> acc, next |-> 0]
            ELSE IF Chr(s, k) = "\"" THEN [value |-> acc \o SubSeq(s, i, k - 1), next |-> k + 1]
            ELSE IF k + 1 > Len(s) THEN [value |-> acc, next |-> 0]
            ELSE JsonReadString(s, k + 2, acc \o SubSeq(s, i, k - 1) \o Unescape(Chr(s, k + 1)))
    IN Read(First({k \in i..Len(s) : Chr(s, k) \in {"\"", "\\"}}))

RECURSIVE JsonReadList(_, _, _)
\* the JSON list of strings whose "[" is before position i of s
JsonReadList(s, i, acc) ==
    LET Item(r) == IF r.next = 0 THEN [value |-> acc, next |-> 0]
                   ELSE JsonReadList(s, r.next, Append(acc, r.value))
    IN IF At(s, i, "]") THEN [value |-> acc, next |-> i + 1]
       ELSE IF At(s, i, ", ") /\ acc # <<>> THEN JsonReadList(s, i + 2, acc)
       ELSE IF At(s, i, "\"") THEN Item(JsonReadString(s, i + 1, ""))
       ELSE [value |-> acc, next |-> 0]

\* json.loads of a text that json_dumps wrote; Raise for any other text
json_loads(s) ==
    LET head == "{\"person\": ["
        mid == ", \"datetime\": "
        \* l is the list read and d the datetime read
        Value(l, d) == IF d.next # 0 /\ From(s, d.next) = "}"
                       THEN [tag |-> "ok", value |-> [person |-> l.value, datetime |-> d.value]]
                       ELSE Raise("JSONDecodeError")
        Datetime(l, j) ==
            Value(l, IF At(s, j, "null") THEN [value |-> None, next |-> j + 4]
                     ELSE IF At(s, j, "\"") THEN JsonReadString(s, j + 1, "")
                     ELSE [value |-> None, next |-> 0])
        Person(l) == IF StartsWith(s, head) /\ l.next # 0 /\ At(s, l.next, mid)
                     THEN Datetime(l, l.next + Len(mid))
                     ELSE Raise("JSONDecodeError")
    IN Person(JsonReadList(s, Len(head) + 1, <<>>))

-----------------------------------------------------------------------------
(* summarize_message of summaryflow_v3.py and of summaryflow_v4.py, up to  *)
(* the record they build.  A payload is a record of its five keys, a key   *)
(* that is absent having the value None; clock is datetime.now() and       *)
(* summary_id the value that _make_summary_id returns.                     *)

\* str(payload.get(key, "")).strip()
Field(payload, key) == IF payload[key] = None THEN "" ELSE Strip(payload[key])

\* a or datetime.now(timezone.utc), for an optional datetime a that is NoDt or Dt
OrNow(a, clock) == IF a = NoDt THEN clock ELSE a.t

\* _parse_iso_utc(anchor_ts_str) or datetime.now(timezone.utc)
AnchorOf(payload, clock) == OrNow(_parse_iso_utc(Field(payload, "timestamp")), clock)

\* what summarize_message has found when it comes to build its summary
Classified(message_text, anchor_ts, people, target_dt, msg_type) ==
    [message_text |-> message_text, anchor_ts |-> anchor_ts, people |-> people,
     target_dt |-> target_dt, msg_type |-> msg_type,
     intent |-> _classify_intent(message_text, msg_type)]

\* the entity extraction and the classification of both summarize_message
Extracted(message_text, anchor_ts) ==
    Classified(message_text, anchor_ts, _extract_people(message_text),
               _extract_datetime(message_text, anchor_ts), _classify_type(message_text))

\* the "entities" of a result
EntitiesOf(people, target_dt) ==
    [person |-> people, datetime |-> IF target_dt # NoDt THEN _format_iso_utc(target_dt.t) ELSE None]

\* the dict that summaryflow_v3.summarize_message builds from what it found (x)
ResultV3(payload, clock, summary_id, platform, x) ==
    IF x.target_dt.tag = "raise" THEN x.target_dt
    ELSE [tag |-> "ok",
          result |->
            [summary_id |-> summary_id,
             user_id |-> Field(payload, "user_id"),
             platform |-> platform,
             message_id |-> Field(payload, "message_id"),
             summary |-> _build_summary(x.message_text, x.intent, x.msg_type, x.people,
                                        x.target_dt, x.anchor_ts),
             type |-> x.msg_type,
             intent |-> x.intent,
             urgency |-> _classify_urgency(x.message_text, x.target_dt, x.anchor_ts),
             entities |-> EntitiesOf(x.people, x.target_dt),
             generated_at |-> _format_iso_utc(clock)]]

\* summaryflow_v3.summarize_message once it has read the platform
PreprocessedV3(payload, clock, summary_id, platform) ==
    ResultV3(payload, clock, summary_id, platform,
             Extracted(_preprocess_text(platform, Field(payload, "message_text")),
                       AnchorOf(payload, clock)))

\* the result dict of summaryflow_v3.summarize_message, or what it raises
summarize_v3(payload, clock, summary_id) ==
    PreprocessedV3(payload, clock, summary_id, Field(payload, "platform"))

\* context flags that leave the reply detection of clean_all out
ContextFlagsWithoutMeta(x, meta) ==
    LET follow_up == \/ x.intent = "follow_up"
                     \/ Contains(Lower(x.message_text), "follow up")
                     \/ Contains(Lower(x.message_text), "follow-up")
    IN (IF x.target_dt # NoDt THEN <<"has_date">> ELSE <<>>)
         \o (IF x.people # <<>> THEN <<"has_person">> ELSE <<>>)
         \o (IF follow_up THEN <<"follow_up">> ELSE <<>>)

\* the context flags of a v4 result
ContextFlags(x, meta) ==
    LET follow_up == \/ x.intent = "follow_up"
                     \/ Contains(Lower(x.message_text), "follow up")
                     \/ Contains(Lower(x.message_text), "follow-up")
                     \/ meta.is_reply = "true"
    IN (IF x.target_dt # NoDt THEN <<"has_date">> ELSE <<>>)
         \o (IF x.people # <<>> THEN <<"has_person">> ELSE <<>>)
         \o (IF follow_up THEN <<"follow_up">> ELSE <<>>)

\* the dict that summaryflow_v4.summarize_message builds from what it found (x)
\* and from the meta of clean_all
ResultV4(payload, clock, summary_id, platform, raw_message_text, meta, x) ==
    IF x.target_dt.tag = "raise" THEN x.target_dt
    ELSE [tag |-> "ok",
          result |->
            [summary_id |-> summary_id,
             user_id |-> Field(payload, "user_id"),
             platform |-> platform,
             message_id |-> Field(payload, "message_id"),
             summary |-> _build_summary(x.message_text, x.intent, x.msg_type, x.people,
                                        x.target_dt, x.anchor_ts),
             intent |-> _map_type_to_api_intent(x.msg_type),
             urgency |-> _classify_urgency(x.message_text, x.target_dt, x.anchor_ts),
             entities |-> EntitiesOf(x.people, x.target_dt),
             context_flags |-> ContextFlags(x, meta),
             generated_at |-> _format_iso_utc(clock),
             device_context |-> _detect_device_context(platform, raw_message_text)]]

\* summaryflow_v4.summarize_message after clean_all
CleanedV4(payload, clock, summary_id, platform, raw_message_text, cleaned) ==
    ResultV4(payload, clock, summary_id, platform, raw_message_text, cleaned.meta,
             Extracted(_preprocess_text(platform, cleaned.text), AnchorOf(payload, clock)))

\* summaryflow_v4.summarize_message once it has read the platform and the text
ReadV4(payload, clock, summary_id, platform, raw_message_text) ==
    CleanedV4(payload, clock, summary_id, platform, raw_message_text,
              clean_all(platform, raw_message_text))

\* the result dict of summaryflow_v4.summarize_message, or what it raises
summarize_v4(payload, clock, summary_id) ==
    ReadV4(payload, clock, summary_id, Field(payload, "platform"), Field(payload, "message_text"))

-----------------------------------------------------------------------------
(* The SQLite store assistant_core.db, which summaryflow_v3.py and         *)
(* summaryflow_v4.py both open under the same path.  A store is a record   *)
(* [file, cols, rows]; a row has a value for every column name that either *)
(* variant knows, None (NULL) in the columns that it was not given.        *)

V3Columns ==
    {"summary_id", "user_id", "message_id", "summary", "type", "intent", "urgency", "entities",
     "platform", "generated_at"}

V4Columns ==
    {"summary_id", "user_id", "platform", "message_id", "summary", "intent", "urgency", "entities",
     "timestamp"}

NoRows == [id \in {} |-> None]

\* the outcomes that the environment may impose on a write: none, sqlite3.connect
\* raising (store unavailable), or the INSERT raising (locked or full store)
Faults == {"none", "connect", "insert"}

\* CREATE TABLE IF NOT EXISTS of _ensure_schema
_ensure_schema(cols) == IF cols = {} THEN V3Columns ELSE cols

\* CREATE TABLE IF NOT EXISTS, PRAGMA table_info and ALTER TABLE of _ensure_schema_v4
_ensure_schema_v4(cols) == (IF cols = {} THEN V4Columns ELSE cols) \cup {"timestamp"}

\* INSERT OR IGNORE: a row that is there under the summary_id stays
InsertOrIgnore(rows, row) ==
    [id \in DOMAIN rows \cup {row.summary_id} |-> IF id \in DOMAIN rows THEN rows[id] ELSE row]

\* INSERT OR REPLACE of a row under its summary_id
Upsert(rows, row) ==
    [id \in DOMAIN rows \cup {row.summary_id} |-> IF id = row.summary_id THEN row ELSE rows[id]]

\* save_summary: the store after the call, and whether the call returned (ok) or raised
save_summary(db, d, fault) ==
    LET cols == _ensure_schema(db.cols)
        row == [summary_id |-> d.summary_id, user_id |-> d.user_id, message_id |-> d.message_id,
                summary |-> d.summary, type |-> d.type, intent |-> d.intent, urgency |-> d.urgency,
                entities |-> json_dumps(d.entities), platform |-> d.platform,
                generated_at |-> d.generated_at, timestamp |-> None]
    IN IF fault = "connect" THEN [db |-> db, ok |-> FALSE]
       ELSE IF fault = "insert" \/ ~(V3Columns \subseteq cols)
       THEN [db |-> [file |-> TRUE, cols |-> cols, rows |-> db.rows], ok |-> FALSE]
       ELSE [db |-> [file |-> TRUE, cols |-> cols, rows |-> Upsert(db.rows, row)], ok |-> TRUE]

\* save_summary_v4
save_summary_v4(db, d, fault) ==
    LET cols == _ensure_schema_v4(db.cols)
        row == [summary_id |-> d.summary_id, user_id |-> d.user_id, platform |-> d.platform,
                message_id |-> d.message_id, summary |-> d.summary, intent |-> d.intent,
                urgency |-> d.urgency, entities |-> json_dumps(d.entities),
                timestamp |-> d.generated_at, type |-> None, generated_at |-> None]
    IN IF fault = "connect" THEN [db |-> db, ok |-> FALSE]
       ELSE IF fault = "insert" \/ ~(V4Columns \subseteq cols)
       THEN [db |-> [file |-> TRUE, cols |-> cols, rows |-> db.rows], ok |-> FALSE]
       ELSE [db |-> [file |-> TRUE, cols |-> cols, rows |-> Upsert(db.rows, row)], ok |-> TRUE]

\* json.loads(text), or text when json.loads raises
LoadedOrRaw(e, text) == IF e.tag = "ok" THEN e.value ELSE [raw |-> text]

\* the dict that get_summary makes of a row; entities is None for an empty column
RowV3(row) ==
    [summary_id |-> row.summary_id, user_id |-> row.user_id, message_id |-> row.message_id,
     summary |-> row.summary, type |-> row.type, intent |-> row.intent, urgency |-> row.urgency,
     entities |-> IF row.entities \in {None, ""} THEN [tag |-> "none"]
                  ELSE LoadedOrRaw(json_loads(row.entities), row.entities),
     platform |-> row.platform, generated_at |-> row.generated_at]

\* get_summary: the store after the call and what the call returns: tag "none" for
\* None, "ok" with the dict, "raise" with the exception
get_summary(db, summary_id) ==
    LET db1 == [file |-> TRUE, cols |-> _ensure_schema(db.cols), rows |-> db.rows]
    IN IF ~db.file THEN [db |-> db, out |-> [tag |-> "none"]]
       ELSE IF ~(V3Columns \subseteq db1.cols)
       THEN [db |-> db1, out |-> Raise("sqlite3.OperationalError")]
       ELSE IF summary_id \notin DOMAIN db.rows THEN [db |-> db1, out |-> [tag |-> "none"]]
       ELSE [db |-> db1, out |-> [tag |-> "ok", result |-> RowV3(db.rows[summary_id])]]

\* the dict that fetch_summary_v4 makes of a row; entities is {} for an empty column
RowV4(row) ==
    [summary_id |-> row.summary_id, user_id |-> row.user_id, platform |-> row.platform,
     message_id |-> row.message_id, summary |-> row.summary, intent |-> row.intent,
     urgency |-> row.urgency,
     entities |-> IF row.entities \in {None, ""} THEN [tag |-> "empty"]
                  ELSE LoadedOrRaw(json_loads(row.entities), row.entities),
     generated_at |-> row.timestamp]

\* fetch_summary_v4
fetch_summary_v4(db, summary_id) ==
    LET db1 == [file |-> TRUE, cols |-> _ensure_schema_v4(db.cols), rows |-> db.rows]
    IN IF ~db.file THEN [db |-> db, out |-> [tag |-> "none"]]
       ELSE IF summary_id \notin DOMAIN db.rows THEN [db |-> db1, out |-> [tag |-> "none"]]
       ELSE [db |-> db1, out |-> [tag |-> "ok", result |-> RowV4(db.rows[summary_id])]]

-----------------------------------------------------------------------------
(* The interface of summaryflow_service: pydantic validation of a request  *)
(* and of a response, and the handlers of /classify and /entities.         *)

Platform == {"whatsapp", "email", "instagram", "sms"}

DeviceContext == {"ios", "android", "web", "windows", "macos", "unknown"}

Intent == {"meeting", "reminder", "question", "task", "note"}

Urgency == {"low", "medium", "high"}

PayloadKeys == {"user_id", "platform", "message_id", "message_text", "timestamp"}

\* SummarizeInput(**body): every key is required, platform is one of Platform
SummarizeInput(payload) ==
    /\ \A k \in PayloadKeys : payload[k] # None
    /\ payload.platform \in Platform

\* DecisionHubSummary(**result)
DecisionHubSummary(result) ==
    /\ DOMAIN result = {"summary_id", "user_id", "platform", "message_id", "summary", "intent",
                        "urgency", "entities", "context_flags", "generated_at", "device_context"}
    /\ result.platform \in Platform
    /\ result.intent \in Intent
    /\ result.urgency \in Urgency
    /\ result.device_context \in DeviceContext

\* _parse_anchor
_parse_anchor(ts, clock) == OrNow(_parse_iso_utc(ts), clock)

\* an output that reports the type as it was classified
RawClassifyOutput(msg_type, urgency) ==
    [type |-> msg_type, intent |-> msg_type, urgency |-> urgency]

\* ClassifyOutput(type=api_intent, intent=api_intent, urgency=urgency)
ClassifyOutput(msg_type, urgency) ==
    LET api_intent == IF msg_type \in {"meeting", "reminder", "question", "task", "note"}
                      THEN msg_type ELSE "note"
    IN [type |-> api_intent, intent |-> api_intent, urgency |-> urgency]

\* the handler of POST /classify after _preprocess_text and _parse_anchor
ClassifyCleaned(cleaned, anchor) ==
    ClassifyOutput(_classify_type(cleaned), _classify_urgency(cleaned, NoDt, anchor))

\* the handler of POST /classify on a validated payload
classify(payload, clock) ==
    ClassifyCleaned(_preprocess_text(payload.platform, payload.message_text),
                    _parse_anchor(payload.timestamp, clock))

\* EntitiesOutput(person=people, datetime=...), or the exception that dt carries
EntitiesOutput(people, dt) ==
    IF dt.tag = "raise" THEN dt ELSE [tag |-> "ok", result |-> EntitiesOf(people, dt)]

\* the handler of POST /entities after _preprocess_text and _parse_anchor
EntitiesCleaned(cleaned, anchor) ==
    EntitiesOutput(_extract_people(cleaned), _extract_datetime(cleaned, anchor))

\* the handler of POST /entities on a validated payload, or what it raises
entities(payload, clock) ==
    EntitiesCleaned(_preprocess_text(payload.platform, payload.message_text),
                    _parse_anchor(payload.timestamp, clock))

-----------------------------------------------------------------------------
(* Bounds, and the inputs that the calls are made with.                    *)

\* how many summarize calls a behaviour of Spec makes
MaxCalls == 2

\* how many of the 2^32 values of uuid4().hex[:8] the calls draw from
NumIds == 2

\* how many times the clock advances
MaxTicks == 1

\* how many handler threads of the service run at a time
NumThreads == 2

Threads == 1..NumThreads

\* a thread that runs no call
Idle == [pc |-> "idle"]

\* the minutes by which the clock advances at a time
TickMinutes == 720

\* datetime.now() at the start: 2025-11-20T14:00Z
StartTime == DaysFromCivil(2025, 11, 20) * MinutesPerDay + 14 * 60

Clocks == {StartTime + k * TickMinutes : k \in 0..MaxTicks}

HexDigits == "0123456789abcdef"

RECURSIVE Hex(_, _)
\* the last `width` hexadecimal digits of n
Hex(n, width) ==
    IF width = 0 THEN "" ELSE Hex(n \div 16, width - 1) \o Chr(HexDigits, (n % 16) + 1)

\* _make_summary_id, u being the leading 32 bits of the uuid4 drawn
_make_summary_id(u) == "s_" \o Hex(u, 8)

IdSpace == {_make_summary_id(u) : u \in 1..NumIds}

\* the identifiers that lookups are made with: the ones that summarize can return
\* and one that it does not
LookupIds == IdSpace \cup {"s_unknown"}

Payload(user_id, platform, message_id, message_text, timestamp) ==
    [user_id |-> user_id, platform |-> platform, message_id |-> message_id,
     message_text |-> message_text, timestamp |-> timestamp]

\* the payloads of Spec
StorePayloads ==
    {Payload("u1", "whatsapp", "m1", "Hey, please confirm tomorrow's 5 PM meeting with Priya.",
             "2025-11-20T14:00:00Z"),
     Payload("u2", "email", "m2", "Any update on the project status?", "garbage")}

PipelineTexts ==
    {"Let's meet tomorrow at 5 pm with Priya.",
     "I have 30 apples",
     "call Sam at 13 pm",
     "see 5:99",
     "x 23 y",
     "Any update on the project status?",
     "ASAP! urgent!!! Please finish the task.",
     "Reminder: submit the report by EOD.",
     "Subject: Sync\nPlease confirm 3 PM meeting.\n--\nRegards, Sam",
     "replying to 'note' Let's schedule a call with Dan at 10am tomorrow.",
     "Sent from my iPhone ^^",
     ""}

PipelinePlatforms == Platform \cup {"telegram"}

PipelineTimestamps == {"2025-11-20T14:00:00Z", "garbage", None}

\* the payloads of SpecPipeline
PipelinePayloads ==
    {Payload("u1", p, "m1", t, ts) : p \in PipelinePlatforms, t \in PipelineTexts,
                                      ts \in PipelineTimestamps}

\* a text that names a day by `word` and a time of the 12-hour clock
ClockText(word, h, m, ap) ==
    "Let's meet " \o word \o " at " \o h \o (IF m = "" THEN "" ELSE ":" \o m) \o " " \o ap

RelativeWords == {"tomorrow", "today"}

ClockHours == {"1", "5", "11", "12"}

ClockMinutes == {"", "30"}

AmPm == {"am", "pm", "PM"}

ClockTexts ==
    {ClockText(word, h, m, ap) : word \in RelativeWords, h \in ClockHours, m \in ClockMinutes,
                                 ap \in AmPm}

\* the anchors of the clock texts: a Thursday afternoon and the last evening of a year
ClockTimestamps == {"2025-11-20T14:00:00Z", "2025-12-31T23:30:00Z"}

\* the anchors of the weekday texts: the seven days from Thursday 2025-11-20 on
WeekTimestamps == {"2025-11-" \o IntToStr(d) \o "T14:00:00Z" : d \in 20..26}

WeekdayTexts == {"See you on Monday", "Lunch on friday at 1 pm", "Sync on Thursday morning"}

AnalysisTexts ==
    {"Meet on 2025-11-25",
     "See you Nov 5",
     "See you Nov 25",
     "This is urgent: the report is due in 3 days",
     "Critical issue, fix it today at 11 pm",
     "ASAP! urgent!!!",
     "Wow!!! great",
     "No! No! No! Stop",
     "Any update on the project status?",
     "What is the status",
     "Hello there",
     "Subject: Meeting with Priya\nHi, confirm 5 PM tomorrow.\n--\nRegards, Sam",
     "Hi team\nRegards, Sam\nSubject: Call with Bob",
     "Hi team\nRegards, Sam\nBob Smith"}

\* texts with the keywords of one, of two and of no category of _classify_type
TypeTexts ==
    {"Please call me",
     "FYI the deadline moved",
     "Please note the change",
     "Can you clarify",
     "Heads up, who is in?",
     "Todo list",
     "Who is in",
     "Is it done?",
     "Stand by me",
     "Recall the numbers",
     "Good morning"}

\* meeting texts, each with the keyword of one intent of a meeting
MeetingTexts ==
    {"Please confirm the call",
     "Book a call with Ana",
     "Can we reschedule the meeting",
     "Postpone the meeting",
     "Move the call to Friday",
     "Cancel the meeting",
     "Team meeting in room 4"}

\* texts whose datetime lies before the anchor of 14:00, at and just after six
\* hours from it, at and just after 48 hours, and a text without a datetime
UrgencyTexts ==
    {"Lunch today at 1 pm",
     "Back in 6 hours",
     "Back in 361 minutes",
     "Back in 48 hours",
     "Back in 49 hours",
     "Send it soon, in 3 days",
     "Send it today"}

\* replies, forwards and follow-ups: with a "re:" or "fwd:" marker, with the
\* phrase "replying to", with a quote header "On ... wrote:" before a quoted
\* block, before unquoted lines, and directly before a line of the body
ReplyTexts ==
    {"Re: lunch with Ana tomorrow at 1 pm",
     "Fwd: budget",
     "replying to Sam: ok",
     "Let's follow up with Dan",
     "On Mon, Ana wrote:\n> hi\n\nSounds good",
     "Sounds good\nOn Mon, Ana wrote:\nold text\n\nSee you",
     "Hi\nOn Mon, Ana wrote:\nSee you at 5",
     "> hi\nSee you at 5\nFrom: Ana\nBye"}

\* the payloads of SpecText
TextPayloads ==
    {Payload("u1", p, "m1", t, ts) : p \in {"sms", "whatsapp"}, t \in ClockTexts,
                                      ts \in ClockTimestamps}
      \cup {Payload("u1", "sms", "m1", t, ts) : t \in WeekdayTexts, ts \in WeekTimestamps}
      \cup {Payload("u1", p, "m1", t, "2025-11-20T14:00:00Z") : p \in PipelinePlatforms,
                                                                t \in AnalysisTexts}
      \cup {Payload("u1", "sms", "m1", t, "2025-11-20T14:00:00Z") : t \in TypeTexts \cup MeetingTexts \cup UrgencyTexts}
      \cup {Payload("u1", p, "m1", t, "2025-11-20T14:00:00Z") : p \in {"sms", "email"},
                                                                t \in ReplyTexts}

Payloads == StorePayloads \cup PipelinePayloads \cup TextPayloads

\* what the two summarize_message come to for every input, worked out once; the
\* identifier is put in by Returned
ResultsV3 == [p \in Payloads, c \in Clocks |-> summarize_v3(p, c, None)]

ResultsV4 == [p \in Payloads, c \in Clocks |-> summarize_v4(p, c, None)]

\* the result dict of a call for which _make_summary_id() returned summary_id
Returned(r, summary_id) == [r.result EXCEPT !.summary_id = summary_id]

-----------------------------------------------------------------------------
(* The state machine: the calls of the two libraries and of the service.   *)

DB == [file |-> dbFile, cols |-> dbCols, rows |-> dbRows]

SetDB(db) == dbFile' = db.file /\ dbCols' = db.cols /\ dbRows' = db.rows

Init ==
    /\ dbFile = FALSE
    /\ dbCols = {}
    /\ dbRows = NoRows
    /\ now = StartTime
    /\ resp = [kind |-> "init"]
    /\ calls = <<>>
    /\ conns = [c \in Threads |-> Idle]

\* time passes
Tick ==
    /\ now < StartTime + MaxTicks * TickMinutes
    /\ now' = now + TickMinutes
    /\ UNCHANGED <<dbFile, dbCols, dbRows, resp, calls>>

\* an exception leaving a library call
Raised(op, payload, exc) == [kind |-> "raised", op |-> op, payload |-> payload, exc |-> exc]

\* a summarize_message that lets the exception of its save escape
RaiseAfterFailedSave(op, payload, result, saved) ==
    IF saved
    THEN [kind |-> "returned", op |-> op, payload |-> payload, result |-> result, saved |-> saved]
    ELSE Raised(op, payload, "sqlite3.OperationalError")

\* the end of summarize_message: try: save(result) / except Exception: pass /
\* return result.  saved tells whether the save returned or raised.
ReturnAfterSave(op, payload, result, saved) ==
    [kind |-> "returned", op |-> op, payload |-> payload, result |-> result, saved |-> saved]

\* an HTTP response of the service
Http(op, payload, status, body) ==
    [kind |-> "http", op |-> op, payload |-> payload, status |-> status, body |-> body]

\* what the history `calls` keeps of a summarize call that returned: the variant
\* of summarize_message that ran, the identifier it returned, whether the store
\* was available to it (no fault imposed on its write) and whether its save
\* returned
Call(variant, summary_id, fault, saved) ==
    [variant |-> variant, summary_id |-> summary_id, available |-> (fault = "none"),
     saved |-> saved]

\* the end of summaryflow_v3.summarize_message: r is what the pipeline came to,
\* result the dict with its summary_id and s the outcome of save_summary(result)
EndV3(payload, fault, r, result, s) ==
    IF r.tag = "raise"
    THEN /\ resp' = Raised("v3.summarize_message", payload, r.exc)
         /\ UNCHANGED <<dbFile, dbCols, dbRows, now, calls>>
    ELSE /\ SetDB(s.db)
         /\ resp' = ReturnAfterSave("v3.summarize_message", payload, result, s.ok)
         /\ calls' = Append(calls, Call("v3", result.summary_id, fault, s.ok))
         /\ UNCHANGED now

SaveV3(payload, fault, r, result) ==
    EndV3(payload, fault, r, result, save_summary(DB, result, fault))

RunV3(payload, u, fault, r) == SaveV3(payload, fault, r, Returned(r, _make_summary_id(u)))

\* summaryflow_v3.summarize_message(payload)
SummarizeV3(payload, u, fault) == RunV3(payload, u, fault, ResultsV3[payload, now])

\* the end of summaryflow_v4.summarize_message, as EndV3
EndV4(payload, fault, r, result, s) ==
    IF r.tag = "raise"
    THEN /\ resp' = Raised("v4.summarize_message", payload, r.exc)
         /\ UNCHANGED <<dbFile, dbCols, dbRows, now, calls>>
    ELSE /\ SetDB(s.db)
         /\ resp' = ReturnAfterSave("v4.summarize_message", payload, result, s.ok)
         /\ calls' = Append(calls, Call("v4", result.summary_id, fault, s.ok))
         /\ UNCHANGED now

SaveV4(payload, fault, r, result) ==
    EndV4(payload, fault, r, result, save_summary_v4(DB, result, fault))

RunV4(payload, u, fault, r) == SaveV4(payload, fault, r, Returned(r, _make_summary_id(u)))

\* summaryflow_v4.summarize_message(payload)
SummarizeV4(payload, u, fault) == RunV4(payload, u, fault, ResultsV4[payload, now])

\* the response of POST /summarize to what summarize_message handed to the handler;
\* saved is no part of the response: it records whether the save had returned
Summarized(payload, inner) ==
    IF inner.kind = "returned" /\ DecisionHubSummary(inner.result)
    THEN [kind |-> "http", op |-> "POST /summarize", payload |-> payload, status |-> 200,
          body |-> inner.result, saved |-> inner.saved]
    ELSE Http("POST /summarize", payload, 500, [detail |-> "Internal Server Error"])

\* the end of POST /summarize, as EndV3: a body that SummarizeInput refuses is
\* answered 422, an exception of the handler 500
EndService(payload, fault, r, result, s) ==
    IF ~SummarizeInput(payload)
    THEN /\ resp' = Http("POST /summarize", payload, 422, [detail |-> "validation error"])
         /\ UNCHANGED <<dbFile, dbCols, dbRows, now, calls>>
    ELSE IF r.tag = "raise"
    THEN /\ resp' = Http("POST /summarize", payload, 500, [detail |-> "Internal Server Error"])
         /\ UNCHANGED <<dbFile, dbCols, dbRows, now, calls>>
    ELSE /\ SetDB(s.db)
         /\ resp' = Summarized(payload,
                               ReturnAfterSave("v4.summarize_message", payload, result, s.ok))
         /\ calls' = Append(calls, Call("v4", result.summary_id, fault, s.ok))
         /\ UNCHANGED now

SaveService(payload, fault, r, result) ==
    EndService(payload, fault, r, result, save_summary_v4(DB, result, fault))

RunService(payload, u, fault, r) == SaveService(payload, fault, r, Returned(r, _make_summary_id(u)))

\* POST /summarize
ServiceSummarize(payload, u, fault) == RunService(payload, u, fault, ResultsV4[payload, now])

\* POST /classify
ServiceClassify(payload) ==
    /\ resp' = IF SummarizeInput(payload)
               THEN Http("POST /classify", payload, 200, classify(payload, now))
               ELSE Http("POST /classify", payload, 422, [detail |-> "validation error"])
    /\ UNCHANGED <<dbFile, dbCols, dbRows, now, calls>>

\* the response of POST /entities to what the handler came to
EntitiesResponse(payload, e) ==
    IF e.tag = "raise"
    THEN Http("POST /entities", payload, 500, [detail |-> "Internal Server Error"])
    ELSE Http("POST /entities", payload, 200, e.result)

\* POST /entities
ServiceEntities(payload) ==
    /\ resp' = IF ~SummarizeInput(payload)
               THEN Http("POST /entities", payload, 422, [detail |-> "validation error"])
               ELSE EntitiesResponse(payload, entities(payload, now))
    /\ UNCHANGED <<dbFile, dbCols, dbRows, now, calls>>

\* what a lookup call hands to its caller
Looked(op, summary_id, out) ==
    IF out.tag = "raise" THEN [kind |-> "raised", op |-> op, summary_id |-> summary_id, exc |-> out.exc]
    ELSE [kind |-> "returned", op |-> op, summary_id |-> summary_id, out |-> out]

\* the end of a lookup that came to g
EndLookup(op, summary_id, g) ==
    /\ SetDB(g.db)
    /\ resp' = Looked(op, summary_id, g.out)
    /\ UNCHANGED <<now, calls>>

\* summaryflow_v3.get_summary(summary_id)
GetSummary(summary_id) == EndLookup("v3.get_summary", summary_id, get_summary(DB, summary_id))

\* summaryflow_v4.fetch_summary_v4(summary_id)
FetchSummaryV4(summary_id) ==
    EndLookup("v4.fetch_summary_v4", summary_id, fetch_summary_v4(DB, summary_id))

\* what history returns for the rec that fetch_summary_v4 came to
history(summary_id, rec) ==
    IF rec.tag = "ok" THEN rec.result ELSE [error |-> "not_found", summary_id |-> summary_id]

\* the end of GET /history/{summary_id}, g being what fetch_summary_v4 came to
EndHistory(summary_id, g) ==
    /\ SetDB(g.db)
    /\ resp' = [kind |-> "http", op |-> "GET /history", summary_id |-> summary_id,
                status |-> 200, body |-> history(summary_id, g.out)]
    /\ UNCHANGED <<now, calls>>

\* GET /history/{summary_id}
ServiceHistory(summary_id) == EndHistory(summary_id, fetch_summary_v4(DB, summary_id))

\* Spec: up to MaxCalls summarize calls and any lookups on the shared store, at
\* one time of the clock
Next ==
    \/ \E p \in StorePayloads, u \in 1..NumIds, f \in Faults :
          Len(calls) < MaxCalls /\ SummarizeV3(p, u, f) /\ UNCHANGED conns
    \/ \E p \in StorePayloads, u \in 1..NumIds, f \in Faults :
          Len(calls) < MaxCalls /\ SummarizeV4(p, u, f) /\ UNCHANGED conns
    \/ \E p \in StorePayloads, u \in 1..NumIds, f \in Faults :
          Len(calls) < MaxCalls /\ ServiceSummarize(p, u, f) /\ UNCHANGED conns
    \/ \E id \in LookupIds :
          GetSummary(id) /\ UNCHANGED conns
    \/ \E id \in LookupIds :
          FetchSummaryV4(id) /\ UNCHANGED conns
    \/ \E id \in LookupIds :
          ServiceHistory(id) /\ UNCHANGED conns

Spec == Init /\ [][Next]_vars

\* SpecPipeline: one call of the pipeline, on any of the payloads of PipelinePayloads
NextPipeline ==
    \/ Tick /\ UNCHANGED conns
    \/ \E p \in PipelinePayloads, f \in Faults :
          resp.kind = "init" /\ SummarizeV3(p, 1, f) /\ UNCHANGED conns
    \/ \E p \in PipelinePayloads, f \in Faults :
          resp.kind = "init" /\ SummarizeV4(p, 1, f) /\ UNCHANGED conns
    \/ \E p \in PipelinePayloads, f \in Faults :
          resp.kind = "init" /\ ServiceSummarize(p, 1, f) /\ UNCHANGED conns
    \/ \E p \in PipelinePayloads :
          resp.kind = "init" /\ ServiceClassify(p) /\ UNCHANGED conns
    \/ \E p \in PipelinePayloads :
          resp.kind = "init" /\ ServiceEntities(p) /\ UNCHANGED conns

SpecPipeline == Init /\ [][NextPipeline]_vars

\* SpecText: one call on a fresh store with a payload whose text exercises the
\* resolution of dates, the classification or the cleaning
NextText ==
    \/ \E p \in TextPayloads :
          resp.kind = "init" /\ SummarizeV3(p, 1, "none") /\ UNCHANGED conns
    \/ \E p \in TextPayloads :
          resp.kind = "init" /\ SummarizeV4(p, 1, "none") /\ UNCHANGED conns
    \/ \E p \in TextPayloads :
          resp.kind = "init" /\ ServiceSummarize(p, 1, "none") /\ UNCHANGED conns
    \/ \E p \in TextPayloads :
          resp.kind = "init" /\ ServiceClassify(p) /\ UNCHANGED conns
    \/ \E p \in TextPayloads :
          resp.kind = "init" /\ ServiceEntities(p) /\ UNCHANGED conns

SpecText == Init /\ [][NextText]_vars

-----------------------------------------------------------------------------
(* The handlers of POST /summarize and GET /history run in the threads of   *)
(* the service, each call on a connection of its own.  A call is a sequence *)
(* of steps on the store: the statements that it executes and its commits.  *)
(* SQLite runs a statement as a unit, shows the rows that a transaction has *)
(* written to no other connection before the commit, and lets one           *)
(* connection at a time hold a write transaction.                          *)

\* the row that save_summary_v4 inserts for the result d
InsertedRow(d) ==
    save_summary_v4([file |-> TRUE, cols |-> V4Columns, rows |-> NoRows], d,
                    "none").db.rows[d.summary_id]

\* a view of the store in which the rows of the open transactions are there
\* already, with the columns urgency and entities still to be written
DirtySnapshot(db, cs) ==
    LET open == {c \in DOMAIN cs : cs[c].pc = "inserted"}
        ids == {cs[c].result.summary_id : c \in open}
        Half(id) == LET c == CHOOSE c \in open : cs[c].result.summary_id = id
                    IN [InsertedRow(cs[c].result) EXCEPT !.urgency = None, !.entities = None]
    IN [db EXCEPT !.rows = [id \in DOMAIN db.rows \cup ids |->
                              IF id \in ids THEN Half(id) ELSE db.rows[id]]]

\* the store as the SELECT of a connection sees it while the threads cs run: the
\* committed rows, without the rows of the transactions that are open
Snapshot(db, cs) == db

\* the summarize calls of the service that run or have returned
Started ==
    Cardinality({i \in DOMAIN calls : calls[i].variant = "v4"})
      + Cardinality({d \in Threads : conns[d].pc \in {"checked", "connected", "inserted"}})

\* the column list that PRAGMA table_info returns after CREATE TABLE IF NOT EXISTS
TableInfo(cols) == IF cols = {} THEN V4Columns ELSE cols

\* POST /summarize up to the PRAGMA of _ensure_schema_v4: summarize_message
\* builds its result, save_summary_v4 connects, creates the table when it is
\* absent and reads the list of its columns.  With the column timestamp in the
\* list there is nothing to add, and the call stands before its INSERT; else it
\* stands before its ALTER TABLE, with the list that it has read in hand.
BeginSummarize(c, payload, u) ==
    /\ conns[c] = Idle
    /\ Started < MaxCalls
    /\ ResultsV4[payload, now].tag = "ok"
    /\ conns' = [conns EXCEPT ![c] = [pc |-> IF "timestamp" \in TableInfo(dbCols)
                                             THEN "connected" ELSE "checked",
                                      payload |-> payload,
                                      result |-> Returned(ResultsV4[payload, now],
                                                          _make_summary_id(u))]]
    /\ dbFile' = TRUE
    /\ dbCols' = TableInfo(dbCols)
    /\ UNCHANGED <<dbRows, now, resp, calls>>

\* the end of POST /summarize on thread c, the save having returned or raised;
\* fault is "none", or "locked" when the save raised because the store stayed
\* locked by another connection until the timeout of the statement
EndSummarize(c, fault, saved) ==
    /\ resp' = Summarized(conns[c].payload,
                          ReturnAfterSave("v4.summarize_message", conns[c].payload,
                                          conns[c].result, saved))
    /\ calls' = Append(calls, Call("v4", conns[c].result.summary_id, fault, saved))
    /\ conns' = [conns EXCEPT ![c] = Idle]

\* the ALTER TABLE ... ADD COLUMN timestamp of _ensure_schema_v4, which runs
\* when the list that the call has read had no column timestamp.  The statement
\* is its own transaction.  It raises sqlite3.OperationalError, which
\* summarize_message swallows, when the table has the column by now (duplicate
\* column name) and when another connection holds the write transaction until
\* the timeout (database is locked).
AddColumn(c) ==
    /\ conns[c].pc = "checked"
    /\ IF "timestamp" \in dbCols
       THEN /\ EndSummarize(c, "none", FALSE)
            /\ UNCHANGED <<dbFile, dbCols, dbRows, now>>
       ELSE IF \E d \in Threads : conns[d].pc = "inserted"
       THEN /\ EndSummarize(c, "locked", FALSE)
            /\ UNCHANGED <<dbFile, dbCols, dbRows, now>>
       ELSE /\ conns' = [conns EXCEPT ![c].pc = "connected"]
            /\ dbCols' = dbCols \cup {"timestamp"}
            /\ UNCHANGED <<dbFile, dbRows, now, resp, calls>>

\* the INSERT OR REPLACE of save_summary_v4: it opens the write transaction of
\* the connection; while another connection holds one, the statement waits and,
\* at its timeout, raises sqlite3.OperationalError (database is locked), which
\* summarize_message swallows
Insert(c) ==
    /\ conns[c].pc = "connected"
    /\ IF \E d \in Threads : conns[d].pc = "inserted"
       THEN /\ EndSummarize(c, "locked", FALSE)
            /\ UNCHANGED <<dbFile, dbCols, dbRows, now>>
       ELSE /\ conns' = [conns EXCEPT ![c].pc = "inserted"]
            /\ UNCHANGED <<dbFile, dbCols, dbRows, now, resp, calls>>

\* conn.commit() of save_summary_v4, and the return of the handler
Commit(c) ==
    /\ conns[c].pc = "inserted"
    /\ dbRows' = Upsert(dbRows, InsertedRow(conns[c].result))
    /\ EndSummarize(c, "none", TRUE)
    /\ UNCHANGED <<dbFile, dbCols, now>>

\* GET /history/{summary_id} up to the SELECT: fetch_summary_v4 returns None
\* when there is no store file, and else connects and runs _ensure_schema_v4
BeginHistory(c, summary_id) ==
    /\ conns[c] = Idle
    /\ IF ~dbFile
       THEN /\ resp' = [kind |-> "http", op |-> "GET /history", summary_id |-> summary_id,
                        status |-> 200, body |-> history(summary_id, [tag |-> "none"])]
            /\ UNCHANGED <<dbFile, dbCols, dbRows, now, calls, conns>>
       ELSE /\ conns' = [conns EXCEPT ![c] = [pc |-> "reading", summary_id |-> summary_id]]
            /\ dbCols' = _ensure_schema_v4(dbCols)
            /\ UNCHANGED <<dbFile, dbRows, now, resp, calls>>

\* the SELECT of fetch_summary_v4, and the return of the handler
Select(c) ==
    /\ conns[c].pc = "reading"
    /\ resp' = [kind |-> "http", op |-> "GET /history", summary_id |-> conns[c].summary_id,
                status |-> 200,
                body |-> history(conns[c].summary_id,
                                 fetch_summary_v4(Snapshot(DB, conns), conns[c].summary_id).out)]
    /\ conns' = [conns EXCEPT ![c] = Idle]
    /\ UNCHANGED <<dbFile, dbCols, dbRows, now, calls>>

\* SpecConcurrent: the threads of the service run POST /summarize and
\* GET /history, their steps interleaved in any order
NextConcurrent ==
    \/ \E c \in Threads, p \in StorePayloads, u \in 1..NumIds : BeginSummarize(c, p, u)
    \/ \E c \in Threads : Insert(c)
    \/ \E c \in Threads : Commit(c)
    \/ \E c \in Threads, id \in IdSpace : BeginHistory(c, id)
    \/ \E c \in Threads : Select(c)

SpecConcurrent == Init /\ [][NextConcurrent]_vars

\* SpecMigrate: a v3 call may create the table with the older schema while there
\* is no store yet; then the threads of the service run POST /summarize, the
\* steps of their schema checks and of their writes interleaved in any order
NextMigrate ==
    \/ \E p \in StorePayloads, u \in 1..NumIds :
          ~dbFile /\ SummarizeV3(p, u, "none") /\ UNCHANGED conns
    \/ \E c \in Threads, p \in StorePayloads, u \in 1..NumIds : BeginSummarize(c, p, u)
    \/ \E c \in Threads : AddColumn(c)
    \/ \E c \in Threads : Insert(c)
    \/ \E c \in Threads : Commit(c)

SpecMigrate == Init /\ [][NextMigrate]_vars

-----------------------------------------------------------------------------
(* The properties.                                                         *)

SummarizeOps == {"v3.summarize_message", "v4.summarize_message"}

LookupOps == {"v3.get_summary", "v4.fetch_summary_v4"}

\* resp is what a summarize_message call of a library returned
LibraryReturned == resp.kind = "returned" /\ resp.op \in SummarizeOps

\* resp is what a summarize_message call of a library raised
LibraryRaised == resp.kind = "raised" /\ resp.op \in SummarizeOps

\* resp is the answer of the service to a request with a payload
ServiceAnswered(op) == resp.kind = "http" /\ resp.op = op

\* the fields of the SummaryRecord of the specification
SummaryRecordFields ==
    {"summary_id", "user_id", "platform", "message_id", "summary", "type", "intent", "urgency",
     "entities", "context_flags", "generated_at", "device_context"}

\* the fields of the record of summaryflow_v4.summarize_message
V4Fields == SummaryRecordFields \ {"type"}

\* the fields of the record of summaryflow_v3.summarize_message
V3Fields == SummaryRecordFields \ {"context_flags", "device_context"}

\* C1 (as claimed): no summarize_message call raises, whatever the text, the
\* platform and the timestamp of its payload, bare numbers in the text included.
C1_SummarizeNeverRaises == ~LibraryRaised

\* C2: a summarize_message whose store write failed (the connection or the
\* INSERT raised, or the table has another variant's columns) raises nothing and
\* returns the record that the pipeline computed, which is the record it returns
\* when the write succeeds; the service answers 200 with that record.
C2_WriteFailureIsSwallowed ==
    /\ ~LibraryRaised
    /\ LibraryReturned /\ resp.op = "v3.summarize_message"
         => resp.result = Returned(ResultsV3[resp.payload, now], resp.result.summary_id)
    /\ LibraryReturned /\ resp.op = "v4.summarize_message"
         => resp.result = Returned(ResultsV4[resp.payload, now], resp.result.summary_id)
    /\ ServiceAnswered("POST /summarize")
         => /\ resp.status = 200
            /\ resp.body = Returned(ResultsV4[resp.payload, now], resp.body.summary_id)

\* C2 witness: a summarize_message has returned a record after its write failed
C2_Witness == LibraryReturned /\ ~resp.saved /\ resp.result.summary # ""

RoundTripFields == {"summary", "intent", "urgency", "entities"}

\* the record rec has the fields ks with the values that the record result has
SameFields(ks, result, rec) == \A k \in ks : k \in DOMAIN rec /\ rec[k] = result[k]

\* C4: when a summarize call has returned a record whose store write succeeded,
\* fetching by the summary_id of that record (get_summary for v3, fetch_summary_v4
\* for v4 and for the service) finds a record with the same summary, intent,
\* urgency and entities.
C4_RoundTrip ==
    /\ LibraryReturned /\ resp.op = "v3.summarize_message" /\ resp.saved
         => /\ get_summary(DB, resp.result.summary_id).out.tag = "ok"
            /\ SameFields(RoundTripFields, resp.result,
                          get_summary(DB, resp.result.summary_id).out.result)
    /\ LibraryReturned /\ resp.op = "v4.summarize_message" /\ resp.saved
         => /\ fetch_summary_v4(DB, resp.result.summary_id).out.tag = "ok"
            /\ SameFields(RoundTripFields, resp.result,
                          fetch_summary_v4(DB, resp.result.summary_id).out.result)
    /\ ServiceAnswered("POST /summarize") /\ resp.status = 200 /\ resp.saved
         => SameFields(RoundTripFields, resp.body,
                       history(resp.body.summary_id, fetch_summary_v4(DB, resp.body.summary_id).out))

\* C4 witness: a write has succeeded under an identifier that had a record of
\* another call, and the record written names a person
C4_Witness ==
    /\ LibraryReturned /\ resp.saved
    /\ resp.result.entities.person # <<>>
    /\ Len(calls) = 2 /\ calls[1].summary_id = calls[2].summary_id /\ calls[1].saved

\* C5 (as claimed): the identifiers that the summarize calls returned are
\* pairwise distinct, and the store holds as many records as summarize calls
\* have returned with their write succeeded.
C5_DistinctIdentifiers ==
    /\ \A i, j \in 1..Len(calls) : i # j => calls[i].summary_id # calls[j].summary_id
    /\ Cardinality(DOMAIN dbRows) = Cardinality({i \in 1..Len(calls) : calls[i].saved})

\* C6 (as claimed): no call changes or removes the record that the store holds
\* under an identifier.
C6_StoredRecordImmutable ==
    [][\A id \in DOMAIN dbRows : id \in DOMAIN dbRows' /\ dbRows'[id] = dbRows[id]]_vars

\* C7 (as claimed): a lookup of an identifier that the store does not hold raises
\* nothing, in whatever state the store is.
C7_UnknownIdNeverFaults ==
    ~(resp.kind = "raised" /\ resp.op \in LookupOps /\ resp.summary_id \notin DOMAIN dbRows)

\* the payload has no timestamp, or one that _parse_iso_utc does not parse
BadTimestamp(payload) ==
    payload.timestamp = None \/ _parse_iso_utc(payload.timestamp) = NoDt

\* resp is an error: an exception of a library call, or a 4xx or 5xx of the service
IsError == resp.kind = "raised" \/ (resp.kind = "http" /\ resp.status # 200)

\* C8 (as claimed): summarize, classify and entities return a result, never an
\* error, for a payload whose timestamp is missing or unparseable.
C8_BadTimestampProceeds ==
    (/\ resp.kind # "init"
     /\ resp.op \in SummarizeOps \cup {"POST /summarize", "POST /classify", "POST /entities"}
     /\ BadTimestamp(resp.payload))
      => ~IsError

\* C9 (as claimed): summarize returns a record, through the libraries and through
\* the service, for a payload whose platform is none of the recognized ones.
C9_UnknownPlatformAccepted ==
    (/\ resp.kind # "init"
     /\ resp.op \in SummarizeOps \cup {"POST /summarize"}
     /\ resp.payload.platform \notin Platform)
      => ~IsError

\* C10 (as claimed): when POST /summarize has answered with a record whose write
\* succeeded, GET /history of its summary_id returns every field of that record
\* with the same value.
C10_HistoryReturnsFullRecord ==
    ServiceAnswered("POST /summarize") /\ resp.status = 200 /\ resp.saved
      => SameFields(DOMAIN resp.body, resp.body,
                    history(resp.body.summary_id, fetch_summary_v4(DB, resp.body.summary_id).out))
\* the operations that look a summary_id up
HistoryOps == LookupOps \cup {"GET /history"}

\* C11 (as claimed): a lookup, whether it finds the identifier or not, leaves the
\* store as it is: its file, the columns of its table and its rows.
C11_LookupLeavesStore ==
    [][resp'.kind # "init" /\ resp'.op \in HistoryOps => UNCHANGED <<dbFile, dbCols, dbRows>>]_vars
\* the operations that resolve the date and time of a text
EntityOps == SummarizeOps \cup {"POST /summarize", "POST /entities"}

\* the operations that classify a text
ClassifyOps == SummarizeOps \cup {"POST /summarize", "POST /classify"}

\* resp is the result of one of the operations ops, not an error
Answered(ops) == resp.kind \in {"returned", "http"} /\ resp.op \in ops /\ ~IsError

\* the message_text that the operation of resp has extracted from and classified:
\* the text after clean_all (v4 only) and _preprocess_text
MessageText ==
    IF resp.op = "v3.summarize_message"
    THEN _preprocess_text(Field(resp.payload, "platform"), Field(resp.payload, "message_text"))
    ELSE IF resp.op \in {"v4.summarize_message", "POST /summarize"}
    THEN _preprocess_text(Field(resp.payload, "platform"),
                          clean_all(Field(resp.payload, "platform"),
                                    Field(resp.payload, "message_text")).text)
    ELSE _preprocess_text(resp.payload.platform, resp.payload.message_text)

\* the record or the output that resp carries
Output == IF resp.kind = "returned" THEN resp.result ELSE resp.body

\* the datetime entity of resp, None when there is none
DatetimeEntity ==
    IF resp.op = "POST /entities" THEN Output.datetime ELSE Output.entities.datetime

\* the instant that the day `word` (counted from the anchor ts) and the time h[:m] ap
\* of the 12-hour clock name
ClockInstant(ts, word, h, m, ap) ==
    LET day == DateOf(_parse_iso_utc(ts).t) + (IF word = "tomorrow" THEN 1 ELSE 0)
        hour == (ParseInt(h) % 12) + (IF Lower(ap) = "pm" THEN 12 ELSE 0)
        minute == IF m = "" THEN 0 ELSE ParseInt(m)
    IN day * MinutesPerDay + hour * 60 + minute

\* C12: for a text that says tomorrow or today and gives a time of the 12-hour
\* clock with am or pm as its only number, and names no weekday, no part of the
\* day and no "in N units", summarize (v3, v4, service) and /entities answer, and
\* the datetime entity is the anchor's date plus one day (tomorrow) or plus none
\* (today) at that time, 12 am being 00 and 12 pm being 12.
C12_RelativeDayAtClockTime ==
    \A word \in RelativeWords, h \in ClockHours, m \in ClockMinutes, ap \in AmPm :
        (/\ resp.kind # "init"
         /\ resp.op \in EntityOps
         /\ resp.payload.message_text = ClockText(word, h, m, ap))
          => /\ ~IsError
             /\ DatetimeEntity
                  = _format_iso_utc(ClockInstant(resp.payload.timestamp, word, h, m, ap))

\* C12 witness: the example of the specification, which resolves to 17:00 of the
\* next day
C12_Witness ==
    /\ Answered(EntityOps)
    /\ resp.payload.message_text = ClockText("tomorrow", "5", "", "pm")
    /\ resp.payload.timestamp = "2025-11-20T14:00:00Z"
    /\ DatetimeEntity = "2025-11-21T17:00:00Z"
\* the weekdays, Monday being 1, that the text names
NamedWeekdays(text) == {i \in 1..7 : Contains(Lower(text), weekdays[i])}

\* the days from the day of the instant t to the next day that is weekday i
\* (Monday being 1), seven when t is on that weekday
DaysUntil(t, i) == (((i - 1) - Weekday(t) + 6) % 7) + 1

\* C13 (as claimed): for a text that names a weekday, the operation answers with
\* a datetime entity, whose date is the next day of that weekday after the date
\* of the anchor, one to seven days ahead.
C13_WeekdayIsNextOccurrence ==
    (/\ resp.kind # "init"
     /\ resp.op \in EntityOps
     /\ SummarizeInput(resp.payload)
     /\ NamedWeekdays(MessageText) # {})
      => /\ ~IsError
         /\ DatetimeEntity # None
         /\ \E i \in NamedWeekdays(MessageText) :
               SubSeq(DatetimeEntity, 1, 10)
                 = FormatDate(DateOf(_parse_iso_utc(resp.payload.timestamp).t)
                                + DaysUntil(_parse_iso_utc(resp.payload.timestamp).t, i))
\* texts with a date literal and nothing else that names a day or a time, each
\* with the midnight of the date it names, the year being that of the anchor
\* 2025-11-20T14:00:00Z where the literal has none
DateLiterals ==
    {[text |-> "Meet on 2025-11-25", midnight |-> "2025-11-25T00:00:00Z"],
     [text |-> "See you Nov 5", midnight |-> "2025-11-05T00:00:00Z"],
     [text |-> "See you Nov 25", midnight |-> "2025-11-25T00:00:00Z"]}

\* C14 (as claimed): for a text with an ISO date or a "Mon DD" literal, and no
\* weekday, part of the day, "in N units" or am/pm time, the operation answers
\* and the datetime entity is that date at 00:00:00 UTC.
C14_DateLiteralAtMidnight ==
    \A d \in DateLiterals :
        (/\ resp.kind # "init"
         /\ resp.op \in EntityOps
         /\ SummarizeInput(resp.payload)
         /\ resp.payload.message_text = d.text)
          => ~IsError /\ DatetimeEntity = d.midnight

\* the urgency keywords of _classify_urgency
UrgencyKeywords ==
    {"emergency", "critical", "urgent", "asap", "immediately", "high priority", "priority"}

\* C15: when the text that the operation classifies (the text after cleaning and
\* preprocessing) has an urgency keyword, in any case of letters, the urgency of
\* the answer is high, whether a datetime entity resolved or not and however far
\* ahead it lies.
C15_UrgencyKeywordIsHigh ==
    (Answered(ClassifyOps) /\ ContainsAny(Lower(MessageText), UrgencyKeywords))
      => Output.urgency = "high"

\* C15 witness: a summarize has answered high for a text with an urgency keyword
\* whose datetime entity lies three days after the anchor
C15_Witness ==
    /\ Answered(SummarizeOps)
    /\ resp.payload.message_text = "This is urgent: the report is due in 3 days"
    /\ DatetimeEntity = "2025-11-23T14:00:00Z"
    /\ Output.urgency = "high"

\* the number of exclamation marks of the raw message text of resp
RawBangs == CountBangs(resp.payload.message_text)

\* C16 (as claimed): when the raw message text has three or more exclamation
\* marks, the urgency of the summarize result is high, on every platform.
C16_ThreeBangsIsHigh ==
    (Answered(SummarizeOps \cup {"POST /summarize"}) /\ RawBangs >= 3)
      => Output.urgency = "high"
\* the lines of the text from the first one that begins "Regards," on, stripped;
\* none when no line begins so
SignatureTail(text) ==
    LET lines == SplitLines(text)
        marks == {i \in 1..Len(lines) : StartsWith(Strip(lines[i]), "Regards,")}
    IN IF marks = {} THEN <<>>
       ELSE [k \in 1..(Len(lines) + 1 - SetMin(marks)) |-> Strip(lines[SetMin(marks) + k - 1])]

\* C17 (as claimed): for an email whose text has a line beginning "Regards,",
\* none of the lines from that one on occurs in the cleaned text of the summarize
\* call, and no person entity of its result is a name out of these lines.
C17_SignatureSuppressed ==
    (/\ Answered(SummarizeOps \cup {"POST /summarize"})
     /\ Lower(Field(resp.payload, "platform")) = "email"
     /\ SignatureTail(resp.payload.message_text) # <<>>)
      => \A i \in DOMAIN SignatureTail(resp.payload.message_text) :
            /\ ~Contains(MessageText, SignatureTail(resp.payload.message_text)[i])
            /\ \A j \in DOMAIN Output.entities.person :
                  ~Contains(SignatureTail(resp.payload.message_text)[i],
                            Output.entities.person[j])

\* the follow-up keywords of _classify_intent
FollowUpKeywords == {"update", "any update", "follow up", "follow-up", "status"}

\* the keywords of a meeting, of a reminder, of an urgent request and of a request
OtherIntentKeywords ==
    {"meeting", "meet", "appointment", "call", "schedule", "reschedule", "cancel", "talk", "chat",
     "reminder", "don't forget", "dont forget", "remember", "due", "deadline", "by eod", "eod",
     "by ", "urgent", "asap", "immediately", "high priority", "priority", "can you", "please",
     "could you", "send", "share", "help", "assign", "finish", "complete"}

\* C18 (as claimed): a text with a follow-up keyword and without a meeting,
\* reminder, urgent or request keyword is classified by the v3 summarize_message
\* with the intent follow_up.
C18_FollowUpIntent ==
    (/\ Answered({"v3.summarize_message"})
     /\ ContainsAny(Lower(MessageText), FollowUpKeywords)
     /\ ~ContainsAny(Lower(MessageText), OtherIntentKeywords))
      => Output.intent = "follow_up"
\* the type echoed into the five values of Intent
Echoed(msg_type) == IF msg_type \in Intent THEN msg_type ELSE "note"

\* C20: /classify answers with a type and an intent that are equal, and the v4
\* summarize (library and service) with an intent, that is the type of the
\* classified text when this is one of meeting, reminder, question, task, note,
\* and "note" for any other type (the fallback "message").
C20_IntentEchoesType ==
    /\ Answered({"POST /classify"})
         => /\ Output.type = Output.intent
            /\ Output.intent \in Intent
            /\ Output.intent = Echoed(_classify_type(MessageText))
    /\ Answered({"v4.summarize_message", "POST /summarize"})
         => /\ Output.intent \in Intent
            /\ Output.intent = Echoed(_classify_type(MessageText))

\* C20 witness: /classify has answered "note" for a text of the type "message"
C20_Witness ==
    /\ Answered({"POST /classify"})
    /\ _classify_type(MessageText) = "message"
    /\ Output.type = "note" /\ Output.intent = "note"
\* the records that a POST /summarize of SpecConcurrent can return
SummarizeRecords ==
    {Returned(ResultsV4[p, t], id) : p \in StorePayloads, t \in Clocks, id \in IdSpace}

\* the fields of a record that the store keeps
StoredFields ==
    {"summary_id", "user_id", "platform", "message_id", "summary", "intent", "urgency",
     "entities", "generated_at"}

TypeOrder == <<"meeting", "reminder", "note", "task", "question">>

\* the keywords of each category
TypeKeywords ==
    [meeting |-> {"meeting", "meet", "appointment", "call", "schedule", "reschedule", "cancel",
                  "talk", "chat"},
     reminder |-> {"reminder", "don't forget", "dont forget", "remember", "due", "deadline",
                   "by eod", "eod", "by "},
     note |-> {"fyi", "for your information", "note", "heads up", "update"},
     task |-> {"task", "todo", "action item", "assign", "please", "can you", "could you"},
     question |-> {"question", "?", "ask", "clarify", "who", "what", "when", "where", "how",
                   "why"}]

\* the places in TypeOrder of the categories that have a keyword in the text t
CategoriesIn(t) == {i \in DOMAIN TypeOrder : ContainsAny(t, TypeKeywords[TypeOrder[i]])}

\* the category of highest priority that has a keyword in t, "message" when none has
HighestCategory(t) ==
    IF CategoriesIn(t) = {} THEN "message" ELSE TypeOrder[SetMin(CategoriesIn(t))]

\* C21: the type of a v3 record is the category of highest priority, in the order
\* meeting, reminder, note, task, question, that has a keyword in the lower-cased
\* preprocessed text, whichever other categories have one too, and it is
\* "message" exactly when no category has a keyword (and there is no "?").
C21_TypeIsFirstMatch ==
    Answered({"v3.summarize_message"})
      => /\ Output.type = HighestCategory(Lower(MessageText))
         /\ (Output.type = "message") <=> (CategoriesIn(Lower(MessageText)) = {})

\* C21 witness: a text with the keywords of a reminder and of a note, and of no
\* meeting, has come out as a reminder
C21_Witness ==
    /\ Answered({"v3.summarize_message"})
    /\ CategoriesIn(Lower(MessageText)) = {2, 3}
    /\ Output.type = "reminder"

\* "schedule" occurs in t elsewhere than inside "reschedule"
SeparateSchedule(t) ==
    \E i \in 1..Len(t) : At(t, i, "schedule") /\ ~At(t, i - 2, "reschedule")

\* the intent that the sub-rules of a meeting give the lower-cased text t, a
\* "reschedule" not counting as the keyword "schedule"
MeetingIntent(t) ==
    IF Contains(t, "confirm") THEN "confirm_meeting"
    ELSE IF ContainsAny(t, {"reschedule", "move", "postpone"})
            /\ ~(SeparateSchedule(t) \/ ContainsAny(t, {"set up", "book"}))
    THEN "reschedule_meeting"
    ELSE IF SeparateSchedule(t) \/ ContainsAny(t, {"set up", "book"}) THEN "schedule_meeting"
    ELSE IF Contains(t, "cancel") THEN "cancel_meeting"
    ELSE "inform_meeting"

\* C22 (as claimed): the intent of a v3 record of the type meeting follows the
\* sub-rules confirm, schedule, reschedule, cancel, inform, and a text whose
\* keyword is "reschedule", "move" or "postpone", without a separate "schedule",
\* "set up" or "book", comes out as reschedule_meeting.
C22_MeetingIntentByKeyword ==
    (Answered({"v3.summarize_message"}) /\ Output.type = "meeting")
      => Output.intent = MeetingIntent(Lower(MessageText))

\* the anchor of the call of resp: its payload's timestamp
Anchor == _parse_iso_utc(resp.payload.timestamp).t

\* the minutes from the anchor to the datetime entity of resp
MinutesToTarget == _parse_iso_utc(DatetimeEntity).t - Anchor

\* the keywords of the fallback of _classify_urgency
SoonKeywords == {"soon", "tomorrow", "today", "eod", "end of day", "tonight"}

\* C23: when the classified text of a summarize call has no urgency keyword and
\* fewer than three exclamation marks, and a datetime entity resolved, the
\* urgency is high iff the target lies at most 6 hours after the anchor (at or
\* before it included), medium iff more than 6 and at most 48 hours, and low
\* otherwise, whether or not the text has a keyword of the fallback (soon,
\* tomorrow, today, eod, tonight); the fallback decides only when no datetime
\* resolved.
C23_UrgencyTiersByDate ==
    (/\ Answered(SummarizeOps \cup {"POST /summarize"})
     /\ ~ContainsAny(Lower(MessageText), UrgencyKeywords)
     /\ CountBangs(MessageText) < 3)
      => IF DatetimeEntity # None
         THEN /\ (Output.urgency = "high") <=> (MinutesToTarget <= 6 * 60)
              /\ (Output.urgency = "medium")
                    <=> (MinutesToTarget > 6 * 60 /\ MinutesToTarget <= 48 * 60)
              /\ (Output.urgency = "low") <=> (MinutesToTarget > 48 * 60)
         ELSE Output.urgency
                = (IF ContainsAny(Lower(MessageText), SoonKeywords) THEN "medium" ELSE "low")

\* C23 witness: a text with the fallback keyword "soon" whose datetime lies three
\* days after the anchor has come out low
C23_Witness ==
    /\ Answered(SummarizeOps \cup {"POST /summarize"})
    /\ resp.payload.message_text = "Send it soon, in 3 days"
    /\ MinutesToTarget = 3 * MinutesPerDay
    /\ Output.urgency = "low"

\* the v4 operations, whose records carry context flags
V4Ops == {"v4.summarize_message", "POST /summarize"}

\* the context flag f is in the record of resp
Flagged(f) == \E i \in DOMAIN Output.context_flags : Output.context_flags[i] = f

\* the fine-grained intent of the classified text of resp
DetailedIntent == _classify_intent(MessageText, _classify_type(MessageText))

\* the reply detection that clean_all reports for the raw text of resp
ReplyMetaOf ==
    clean_all(Field(resp.payload, "platform"), Field(resp.payload, "message_text")).meta

\* C24: in every v4 record, has_date is a context flag iff entities.datetime is
\* not null, has_person iff entities.person is not empty, follow_up iff the
\* fine-grained intent is follow_up or the classified text contains "follow up"
\* or "follow-up" or clean_all reported is_reply = "true"; there is no other
\* flag and none occurs twice.
C24_ContextFlags ==
    Answered(V4Ops)
      => /\ Flagged("has_date") <=> (Output.entities.datetime # None)
         /\ Flagged("has_person") <=> (Output.entities.person # <<>>)
         /\ Flagged("follow_up")
               <=> \/ DetailedIntent = "follow_up"
                   \/ ContainsAny(Lower(MessageText), {"follow up", "follow-up"})
                   \/ ReplyMetaOf.is_reply = "true"
         /\ \A i, j \in DOMAIN Output.context_flags :
               /\ Output.context_flags[i] \in {"has_date", "has_person", "follow_up"}
               /\ (Output.context_flags[i] = Output.context_flags[j]) => (i = j)

\* C24 witness: a v4 record has all three flags, follow_up for no other reason
\* than the reply detection
C24_Witness ==
    /\ Answered(V4Ops)
    /\ Output.context_flags = <<"has_date", "has_person", "follow_up">>
    /\ DetailedIntent # "follow_up"
    /\ ~ContainsAny(Lower(MessageText), {"follow up", "follow-up"})
    /\ ReplyMetaOf.is_reply = "true"

\* the v4 summarize calls (library and service) that returned with the store
\* available to them
AvailableV4Calls == {i \in DOMAIN calls : calls[i].variant = "v4" /\ calls[i].available}

\* C25 (as claimed): a v4 summarize call has written its record when it
\* returns, so that, the store being available to the call, a lookup
\* (fetch_summary_v4, which GET /history runs) made on the store after the
\* return always finds a record under the returned identifier.
C25_LookupAfterReturnFinds ==
    \A i \in AvailableV4Calls : fetch_summary_v4(DB, calls[i].summary_id).out.tag = "ok"

\* the raw message text of resp
RawText == Field(resp.payload, "message_text")

\* the raw text has a line of the form "On <anything> wrote:"
HasQuoteHeader(text) ==
    \E k \in DOMAIN SplitLines(text) : MatchesOnWrote(Strip(SplitLines(text)[k]), FALSE)

\* the phrasing and the markers of a reply
ReplyMarkers == {"replying to", "replied to", "re:", "fw:", "fwd:"}

\* C26 (as claimed): for a message with a quote-header line "On ... wrote:",
\* clean_all reports is_reply = "true" with reply_to "quoted" (when no other
\* marker of a reply is there), and the v4 record has the context flag
\* follow_up; for a message with "replying to" or a re:, fw: or fwd: marker it
\* reports is_reply = "true" and the record has the flag likewise.
C26_QuoteHeaderIsReply ==
    Answered(V4Ops)
      => /\ HasQuoteHeader(RawText)
              => /\ ReplyMetaOf.is_reply = "true"
                 /\ ContainsAny(Lower(RawText), ReplyMarkers) \/ ReplyMetaOf.reply_to = "quoted"
                 /\ Flagged("follow_up")
         /\ ContainsAny(Lower(RawText), ReplyMarkers)
              => ReplyMetaOf.is_reply = "true" /\ Flagged("follow_up")

\* what the lookup of a variant would return for summary_id on the store as it is
LookupOf(variant, summary_id) ==
    IF variant = "v3" THEN get_summary(DB, summary_id).out
    ELSE fetch_summary_v4(DB, summary_id).out

\* C27 (as claimed): from an empty store on, after v3 and v4 summarize calls in
\* any order, the identifier that a call returned while the store was available
\* is persisted and the lookup of the variant that made the call retrieves a
\* record under it, and no lookup of either variant raises.
C27_VariantsShareStore ==
    /\ \A i \in DOMAIN calls :
          calls[i].available
            => /\ calls[i].saved
               /\ calls[i].summary_id \in DOMAIN dbRows
               /\ LookupOf(calls[i].variant, calls[i].summary_id).tag = "ok"
    /\ ~(resp.kind = "raised" /\ resp.op \in HistoryOps)

\* what summarize_message of v4, which POST /summarize runs, comes to for the
\* payload of resp
SummarizeOfSame == ResultsV4[resp.payload, now]

\* C28 (as claimed): the urgency that POST /classify answers for a payload is the
\* urgency of the record that POST /summarize returns for the same payload, a
\* text with a time expression that resolves included.
C28_ClassifyUrgencyAsSummarize ==
    (Answered({"POST /classify"}) /\ SummarizeOfSame.tag = "ok")
      => Output.urgency = SummarizeOfSame.result.urgency

\* the stripped line l is boilerplate of a forward or of a quote: a quoted line,
\* a line that begins with a marker, or a header "On ... wrote:"
Boilerplate(l) ==
    \/ StartsWith(l, ">")
    \/ \E k \in DOMAIN quote_markers : StartsWith(l, quote_markers[k])
    \/ BlankQuoteLine(l) = ""

\* the lines of the text, stripped, that are neither empty nor boilerplate
BodyLines(text) ==
    SelectSeq([k \in DOMAIN SplitLines(text) |-> Strip(SplitLines(text)[k])],
              LAMBDA l : l # "" /\ ~Boilerplate(l))

\* the lines that remove_forwards_quotes leaves of the text
LinesLeft(text) == SelectSeq(SplitLines(remove_forwards_quotes(text)), LAMBDA l : l # "")

\* C29 (as claimed): of the raw text of a v4 summarize call, remove_forwards_quotes
\* leaves every line that is no quoted line, no marker line and no "On ...
\* wrote:" header, in the order of the text, whatever lines come before it: a
\* line directly after a header or after a quoted block included.
C29_OnlyBoilerplateDropped ==
    Answered(V4Ops) => LinesLeft(RawText) = BodyLines(RawText)

\* C30 (as claimed): however the steps of concurrent POST /summarize calls
\* interleave, on a fresh store and on one whose table a v3 call created without
\* the column timestamp, the record of every call that found the store
\* available (no statement of it timed out on a lock) is persisted: the schema
\* check of a call, its ALTER TABLE and its upsert never fail because another
\* call runs them at the same time.
C30_ConcurrentMigrationPersists ==
    \A i \in AvailableV4Calls : calls[i].saved /\ calls[i].summary_id \in DOMAIN dbRows
====
